---- MODULE Spec2Model ----
(***************************************************************************)
(* Model of Phase3USDJPYSystem (src/phase3_usdjpy_optimized.py): the bar   *)
(* features, the indicator engine, the per-bar scorer and decision fuser,  *)
(* and the cost-aware backtest.                                            *)
(*                                                                         *)
(* Numbers.  The program computes in float64; TLC has 32-bit integers, so  *)
(* every float quantity is a fixed-point integer with a named scale, and   *)
(* NaN / +inf are two reserved integers.  Bar indices are 0-based as in    *)
(* the program; At(s, i) reads position i of a column.                     *)
(*   prices (Close/High/Low)        whole price units                      *)
(*   price-like indicators          1/Scale of a price unit                *)
(*   ratios (returns, pct changes)  1/Micro                                *)
(*   scores, final score, confidence 1/Q   (Q = 1.0)                       *)
(*   position                       1/Half (Half = 1.0)                    *)
(* The final score is exact in these units (sub-scores are multiples of    *)
(* 0.5, multipliers of 0.1); float64 rounds some products (1.2 * 3 is      *)
(* 3.5999999999999996), so a score exactly on a threshold here can fall    *)
(* just below it in the program.  Indicator values carry the rounding of   *)
(* their scale, so two values closer than that can compare differently     *)
(* here and in float64.                                                    *)
(***************************************************************************)
EXTENDS Integers, Sequences, FiniteSets, TLC

\* shadow keeps what an earlier pass of the pipeline on the same instance
\* produced, for comparison with the pass under way (a history variable);
\* provider is the EnhancedFXDataProvider of src/aws_fx_phase2_2.py with the
\* call of get_real_fx_rate under way
VARIABLES entry, pc, data, indicators, signals, i, trace, performance, result, shadow,
          runs, provider

vars == <<entry, pc, data, indicators, signals, i, trace, performance, result, shadow,
          runs, provider>>

-----------------------------------------------------------------------------
(* float64 stand-ins *)

Scale == 10^3
Unit  == 10^4
Micro == 10^6
Q     == 400
Half  == 2

NaN == 0 - 2000000000
Inf == 2000000000

IsNum(x) == x # NaN /\ x # Inf

\* IEEE comparisons: any comparison with NaN is False
Gt(a, b) == a # NaN /\ b # NaN /\ a > b
Lt(a, b) == a # NaN /\ b # NaN /\ a < b
Ge(a, b) == a # NaN /\ b # NaN /\ a >= b
Le(a, b) == a # NaN /\ b # NaN /\ a <= b

Abs(x) == IF x < 0 THEN 0 - x ELSE x
Max2(a, b) == IF a >= b THEN a ELSE b
Min2(a, b) == IF a <= b THEN a ELSE b

Sub(a, b) == IF a = NaN \/ b = NaN THEN NaN ELSE a - b

At(s, k) == s[k + 1]

\* a column given by a rule, laid out as a sequence
Col(f) == SubSeq(f, 1, Len(f))

\* floor of the square root, by bisection on [lo, hi]
RECURSIVE SqrtIn(_, _, _)
SqrtIn(v, lo, hi) ==
    IF lo >= hi THEN lo
    ELSE LET mid == (lo + hi + 1) \div 2
         IN  IF mid * mid <= v THEN SqrtIn(v, mid, hi) ELSE SqrtIn(v, lo, mid - 1)

ISqrt(v) == SqrtIn(v, 0, 46340)

\* sums over the bars lo..hi of a column, by halving the range
RECURSIVE SumRange(_, _, _)
SumRange(s, lo, hi) ==
    IF lo > hi THEN 0
    ELSE IF lo = hi THEN At(s, lo)
    ELSE LET mid == (lo + hi) \div 2
         IN  SumRange(s, lo, mid) + SumRange(s, mid + 1, hi)

RECURSIVE SumSqRange(_, _, _)
SumSqRange(s, lo, hi) ==
    IF lo > hi THEN 0
    ELSE IF lo = hi THEN At(s, lo) * At(s, lo)
    ELSE LET mid == (lo + hi) \div 2
         IN  SumSqRange(s, lo, mid) + SumSqRange(s, mid + 1, hi)

HasNaN(s, lo, hi) == \E k \in lo..hi : At(s, k) = NaN

\* Series.rolling(window=w).mean() at index k of a fixed-point column
RollMean(s, k, w) ==
    IF k + 1 < w \/ HasNaN(s, k + 1 - w, k) THEN NaN
    ELSE SumRange(s, k + 1 - w, k) \div w

\* faulty variant: a window that ends one bar ahead of index k (a rolling
\* mean shifted by -1), which reads a bar that comes after k
RollMeanPrice_ahead(c, k, w) ==
    IF k + 1 < w THEN NaN
    ELSE LET e == Min2(k + 1, Len(c) - 1)
         IN  (SumRange(c, e + 1 - w, e) * Scale) \div w

\* close.rolling(window=w).mean() at index k, prices in whole units -> 1/Scale
RollMeanPrice(c, k, w) ==
    IF k + 1 < w THEN NaN ELSE (SumRange(c, k + 1 - w, k) * Scale) \div w

\* close.rolling(window=w).std() (ddof = 1) at index k -> 1/Scale
RollStdPrice(c, k, w) ==
    IF k + 1 < w THEN NaN
    ELSE LET sm == SumRange(c, k + 1 - w, k)
             sq == SumSqRange(c, k + 1 - w, k)
             v  == w * sq - sm * sm
         IN  ISqrt((v * Unit) \div (w * (w - 1))) * (Scale \div 100)

\* Series.ewm(span=span).mean() (adjust=True): the running weighted average
\* y_t = (old_wt*y_{t-1} + x_t) / (old_wt + 1), old_wt = (1-alpha)*(sum of weights)
\* (st.den is the sum of weights, st.acc the averages so far)
EwmStep(x, span, st) ==
    LET k == Len(st.acc)
    IN  IF k >= Len(x) THEN st
        ELSE IF k = 0 THEN [den |-> Unit, acc |-> <<At(x, 0)>>]
        ELSE LET den2 == Unit + ((span - 1) * st.den) \div (span + 1)
                 prev == At(st.acc, k - 1)
                 y    == prev + ((At(x, k) - prev) * Unit) \div den2
             IN  [den |-> den2, acc |-> Append(st.acc, y)]

EwmStep4(x, span, st) == EwmStep(x, span, EwmStep(x, span, EwmStep(x, span, EwmStep(x, span, st))))

RECURSIVE EwmFrom(_, _, _)
EwmFrom(x, span, st) ==
    IF Len(st.acc) >= Len(x) THEN st.acc
    ELSE EwmFrom(x, span, EwmStep4(x, span, EwmStep4(x, span, st)))

Ewm(x, span) == EwmFrom(x, span, [den |-> Unit, acc |-> << >>])


-----------------------------------------------------------------------------
(* Bar series supplied by the data source.  A series is described by a    *)
(* close path (two cyclic delta patterns joined at a turn bar), a cyclic  *)
(* high/low wick pattern and the hour of each bar.                        *)

Base == 200

Pats == << <<0>>, <<1>>, <<-1>>, <<1, -1>>, <<2>>, <<2, -1>>, <<-2, 1>>, <<0, 0, 0, 2>> >>

Wicks == << <<1>>, <<1, 1, 1, 1, 4>>, <<2, 1>> >>

Cyc(p, k) == p[(k % Len(p)) + 1]

\* half the high-low range of bar k: wick pattern w, or no range at all
\* (open = high = low = close) for w = 0
Wick(w, k) == IF w = 0 THEN 0 ELSE Cyc(Wicks[w], k)

GenClose(n, p1, p2, turn) ==
    LET d == Col([k \in 1..n |-> IF k = 1 THEN Base
                                 ELSE IF k - 1 < turn THEN Cyc(Pats[p1], k - 1)
                                 ELSE Cyc(Pats[p2], k - 1)])
    IN  Col([k \in 1..n |-> SumRange(d, 0, k - 1)])

RawBars(n, p1, p2, turn, w, h0, hs) ==
    LET c == GenClose(n, p1, p2, turn)
    IN  [Close |-> c,
         High  |-> [k \in 1..n |-> c[k] + Wick(w, k - 1)],
         Low   |-> [k \in 1..n |-> c[k] - Wick(w, k - 1)],
         Hour  |-> [k \in 1..n |-> (h0 + (k - 1) * hs) % 24]]

\* truthiness of a 0/1 flag column entry, as ((cond).astype(int))
Flag(b) == IF b THEN 1 ELSE 0

_add_usdjpy_features(raw) ==
    LET n == Len(raw.Close)
    IN  [Close |-> raw.Close, High |-> raw.High, Low |-> raw.Low, Hour |-> raw.Hour,
         Tokyo_Session   |-> [k \in 1..n |-> Flag(raw.Hour[k] >= 0 /\ raw.Hour[k] < 9)],
         London_Session  |-> [k \in 1..n |-> Flag(raw.Hour[k] >= 8 /\ raw.Hour[k] < 17)],
         NY_Session      |-> [k \in 1..n |-> Flag(raw.Hour[k] >= 13 /\ raw.Hour[k] < 22)],
         Overlap_Session |-> [k \in 1..n |-> Flag(raw.Hour[k] >= 13 /\ raw.Hour[k] < 17)],
         Daily_Range     |-> [k \in 1..n |-> (raw.High[k] - raw.Low[k]) * Scale],
         Daily_Range_Pct |-> [k \in 1..n |->
                                 (((raw.High[k] - raw.Low[k]) * Scale) * 100) \div raw.Close[k]]]

BarCount(d) == Len(d.Close)

-----------------------------------------------------------------------------
(* Indicator engine *)

macd_fast == 8
macd_slow == 21
macd_signal == 5
bb_period == 15
bb_std == 18
rsi_period == 10
atr_period == 10

Fixed(c) == Col([k \in 1..Len(c) |-> c[k] * Scale])

\* close.diff(): NaN at bar 0
Diff(c) == Col([k \in 1..Len(c) |-> IF k = 1 THEN NaN ELSE c[k] - c[k - 1]])

\* delta.where(delta > 0, 0): entries failing the test (NaN included) become 0
GainOf(d) == Col([k \in 1..Len(d) |-> IF Gt(d[k], 0) THEN d[k] ELSE 0])
LossOf(d) == Col([k \in 1..Len(d) |-> IF Lt(d[k], 0) THEN 0 - d[k] ELSE 0])

\* faulty variant: a division that answers 0 for 0/0
Ratio_zero(a, b) ==
    IF a = NaN \/ b = NaN THEN NaN
    ELSE IF b = 0 THEN (IF a = 0 THEN 0 ELSE Inf)
    ELSE (a * Scale) \div b

\* float division gain / loss: x/0 is +inf, 0/0 is NaN
Ratio(a, b) ==
    IF a = NaN \/ b = NaN THEN NaN
    ELSE IF b = 0 THEN (IF a = 0 THEN NaN ELSE Inf)
    ELSE (a * Scale) \div b

\* 100 - (100 / (1 + rs)), in 1/Scale
RsiOf(rs) ==
    IF rs = NaN THEN NaN
    ELSE IF rs = Inf THEN 100 * Scale
    ELSE 100 * Scale - (100 * Scale * Scale) \div (Scale + rs)

\* max over (high-low, |high-prevclose|, |low-prevclose|), NaN entries skipped
TrueRange(d, k) ==
    LET tr1 == At(d.High, k) - At(d.Low, k)
    IN  IF k = 0 THEN tr1
        ELSE Max2(tr1, Max2(Abs(At(d.High, k) - At(d.Close, k - 1)),
                            Abs(At(d.Low, k) - At(d.Close, k - 1))))

\* close.pct_change(p) at bar k, in 1/Micro
PctChange(c, k, p) ==
    IF k < p THEN NaN ELSE ((At(c, k) - At(c, k - p)) * Micro) \div At(c, k - p)

calculate_fx_optimized_indicators(d) ==
    LET n == BarCount(d)
        close == d.Close
        fx == Fixed(close)
        ema_fast == Ewm(fx, macd_fast)
        ema_slow == Ewm(fx, macd_slow)
        macd == Col([k \in 1..n |-> ema_fast[k] - ema_slow[k]])
        sig  == Ewm(macd, macd_signal)
        sma_bb == Col([k \in 1..n |-> RollMeanPrice(close, k - 1, bb_period)])
        std_bb == Col([k \in 1..n |-> RollStdPrice(close, k - 1, bb_period)])
        upper == [k \in 1..n |-> IF sma_bb[k] = NaN THEN NaN
                                  ELSE sma_bb[k] + (std_bb[k] * bb_std) \div 10]
        lower == [k \in 1..n |-> IF sma_bb[k] = NaN THEN NaN
                                  ELSE sma_bb[k] - (std_bb[k] * bb_std) \div 10]
        width == [k \in 1..n |-> Sub(upper[k], lower[k])]
        delta == Diff(close)
        gsum == Fixed(GainOf(delta))
        lsum == Fixed(LossOf(delta))
        gain == [k \in 1..n |-> RollMean(gsum, k - 1, rsi_period)]
        loss == [k \in 1..n |-> RollMean(lsum, k - 1, rsi_period)]
        tr   == Col([k \in 1..n |-> TrueRange(d, k - 1) * Scale])
        atr  == Col([k \in 1..n |-> RollMean(tr, k - 1, atr_period)])
        s10  == [k \in 1..n |-> RollStdPrice(close, k - 1, 10)]
        m10  == [k \in 1..n |-> RollMeanPrice(close, k - 1, 10)]
    IN  [MACD           |-> macd,
         MACD_Signal    |-> sig,
         MACD_Histogram |-> [k \in 1..n |-> macd[k] - sig[k]],
         BB_Upper       |-> upper,
         BB_Middle      |-> sma_bb,
         BB_Lower       |-> lower,
         BB_Width       |-> width,
         BB_Position    |-> [k \in 1..n |->
                                IF width[k] = NaN THEN NaN
                                ELSE IF width[k] = 0
                                     THEN (IF fx[k] = lower[k] THEN NaN ELSE Inf)
                                ELSE ((fx[k] - lower[k]) * Scale) \div width[k]],
         RSI            |-> [k \in 1..n |-> RsiOf(Ratio(gain[k], loss[k]))],
         ATR            |-> atr,
         ATR_Pct        |-> [k \in 1..n |-> IF atr[k] = NaN THEN NaN
                                             ELSE (atr[k] * 100) \div close[k]],
         EMA_5          |-> Ewm(fx, 5),
         EMA_13         |-> Ewm(fx, 13),
         EMA_34         |-> Ewm(fx, 34),
         Price_Change_3 |-> [k \in 1..n |-> PctChange(close, k - 1, 3)],
         Price_Change_5 |-> [k \in 1..n |-> PctChange(close, k - 1, 5)],
         Volatility_10  |-> [k \in 1..n |-> IF s10[k] = NaN THEN NaN
                                             ELSE (s10[k] * (Micro \div 10)) \div (m10[k] \div 10)]]

NoIndicators == [MACD |-> << >>]


-----------------------------------------------------------------------------
(* Session classifier and multi-factor scorer *)

\* a row of the bar table
Row(d, k) ==
    [Hour |-> At(d.Hour, k),
     Tokyo_Session |-> At(d.Tokyo_Session, k), London_Session |-> At(d.London_Session, k),
     NY_Session |-> At(d.NY_Session, k), Overlap_Session |-> At(d.Overlap_Session, k)]

\* faulty variant: London tested before Tokyo and Overlap
_identify_trading_session_london_first(row) ==
    IF row.London_Session # 0 THEN "London"
    ELSE IF row.Tokyo_Session # 0 THEN "Tokyo"
    ELSE IF row.Overlap_Session # 0 THEN "Overlap"
    ELSE IF row.NY_Session # 0 THEN "NY"
    ELSE "Quiet"

_identify_trading_session(row) ==
    IF row.Tokyo_Session # 0 THEN "Tokyo"
    ELSE IF row.Overlap_Session # 0 THEN "Overlap"
    ELSE IF row.London_Session # 0 THEN "London"
    ELSE IF row.NY_Session # 0 THEN "NY"
    ELSE "Quiet"

\* multiplier in tenths (13 is 1.3)
_get_session_multiplier(session) ==
    CASE session = "Overlap" -> 13
      [] session = "London"  -> 12
      [] session = "NY"      -> 11
      [] session = "Tokyo"   -> 10
      [] session = "Quiet"   -> 7
      [] OTHER               -> 10

\* faulty variant: no MACD contribution when MACD equals its signal line
_analyze_fx_momentum_strict(k, ind) ==
    LET macdPart ==
            IF Gt(At(ind.MACD, k), At(ind.MACD_Signal, k))
            THEN (IF Gt(At(ind.MACD_Histogram, k), At(ind.MACD_Histogram, k - 1))
                  THEN 2 * Q ELSE Q)
            ELSE IF Lt(At(ind.MACD, k), At(ind.MACD_Signal, k))
            THEN (IF Lt(At(ind.MACD_Histogram, k), At(ind.MACD_Histogram, k - 1))
                  THEN 0 - 2 * Q ELSE 0 - Q)
            ELSE 0
        emaPart ==
            IF Gt(At(ind.EMA_5, k), At(ind.EMA_13, k)) /\ Gt(At(ind.EMA_13, k), At(ind.EMA_34, k))
            THEN Q
            ELSE IF Lt(At(ind.EMA_5, k), At(ind.EMA_13, k))
                    /\ Lt(At(ind.EMA_13, k), At(ind.EMA_34, k))
            THEN 0 - Q
            ELSE 0
    IN  [score |-> macdPart + emaPart, signals |-> << >>]

_analyze_fx_momentum(k, ind) ==
    LET macdPart ==
            IF Gt(At(ind.MACD, k), At(ind.MACD_Signal, k))
            THEN (IF Gt(At(ind.MACD_Histogram, k), At(ind.MACD_Histogram, k - 1))
                  THEN [score |-> 2 * Q, signals |-> <<"macd_strong_bull">>]
                  ELSE [score |-> Q, signals |-> <<"macd_bull">>])
            ELSE (IF Lt(At(ind.MACD_Histogram, k), At(ind.MACD_Histogram, k - 1))
                  THEN [score |-> 0 - 2 * Q, signals |-> <<"macd_strong_bear">>]
                  ELSE [score |-> 0 - Q, signals |-> <<"macd_bear">>])
        ema5  == At(ind.EMA_5, k)
        ema13 == At(ind.EMA_13, k)
        ema34 == At(ind.EMA_34, k)
        emaPart ==
            IF Gt(ema5, ema13) /\ Gt(ema13, ema34)
            THEN [score |-> Q, signals |-> <<"ema_bullish">>]
            ELSE IF Lt(ema5, ema13) /\ Lt(ema13, ema34)
            THEN [score |-> 0 - Q, signals |-> <<"ema_bearish">>]
            ELSE [score |-> 0, signals |-> << >>]
    IN  [score |-> macdPart.score + emaPart.score,
         signals |-> macdPart.signals \o emaPart.signals]

\* faulty variant: the wide-band bonus given on top of the extreme one
_analyze_fx_mean_reversion_additive(k, ind) ==
    LET rsi    == At(ind.RSI, k)
        bb_pos == At(ind.BB_Position, k)
        rsiPart ==
            IF Lt(rsi, 25 * Scale) THEN 2 * Q
            ELSE IF Gt(rsi, 75 * Scale) THEN 0 - 2 * Q
            ELSE IF Le(40 * Scale, rsi) /\ Le(rsi, 60 * Scale) THEN Q \div 2
            ELSE 0
        extreme ==
            IF Lt(bb_pos, (5 * Scale) \div 100) THEN 2 * Q
            ELSE IF Gt(bb_pos, (95 * Scale) \div 100) THEN 0 - 2 * Q
            ELSE 0
        wide ==
            IF Lt(bb_pos, (2 * Scale) \div 10) THEN Q
            ELSE IF Gt(bb_pos, (8 * Scale) \div 10) THEN 0 - Q
            ELSE 0
    IN  [score |-> rsiPart + extreme + wide, signals |-> << >>]

_analyze_fx_mean_reversion(k, ind) ==
    LET rsi    == At(ind.RSI, k)
        bb_pos == At(ind.BB_Position, k)
        rsiPart ==
            IF Lt(rsi, 25 * Scale) THEN [score |-> 2 * Q, signals |-> <<"rsi_oversold">>]
            ELSE IF Gt(rsi, 75 * Scale) THEN [score |-> 0 - 2 * Q, signals |-> <<"rsi_overbought">>]
            ELSE IF Le(40 * Scale, rsi) /\ Le(rsi, 60 * Scale)
            THEN [score |-> Q \div 2, signals |-> <<"rsi_neutral">>]
            ELSE [score |-> 0, signals |-> << >>]
        bbPart ==
            IF Lt(bb_pos, (5 * Scale) \div 100)
            THEN [score |-> 2 * Q, signals |-> <<"bb_extreme_oversold">>]
            ELSE IF Gt(bb_pos, (95 * Scale) \div 100)
            THEN [score |-> 0 - 2 * Q, signals |-> <<"bb_extreme_overbought">>]
            ELSE IF Lt(bb_pos, (2 * Scale) \div 10)
            THEN [score |-> Q, signals |-> <<"bb_oversold">>]
            ELSE IF Gt(bb_pos, (8 * Scale) \div 10)
            THEN [score |-> 0 - Q, signals |-> <<"bb_overbought">>]
            ELSE [score |-> 0, signals |-> << >>]
    IN  [score |-> rsiPart.score + bbPart.score,
         signals |-> rsiPart.signals \o bbPart.signals]

\* a > b * (num/10) on fixed-point values, exact by cross-multiplication
GtTimes(a, b, num) == a # NaN /\ b # NaN /\ 10 * a > num * b
LeTimes(a, b, num) == a # NaN /\ b # NaN /\ 10 * a <= num * b
GeTimes(a, b, num) == a # NaN /\ b # NaN /\ 10 * a >= num * b

\* faulty variant: no range contribution when the 5-bar change is exactly 0
_analyze_fx_breakout_flat_zero(k, d, ind) ==
    LET price_change_3 == At(ind.Price_Change_3, k)
        price_change_5 == At(ind.Price_Change_5, k)
        atrPart ==
            IF GtTimes(At(ind.ATR_Pct, k), RollMean(ind.ATR_Pct, k, 20), 12)
            THEN (IF Gt(price_change_3, (5 * Micro) \div 1000) THEN Q
                  ELSE IF Lt(price_change_3, 0 - (5 * Micro) \div 1000) THEN 0 - Q
                  ELSE 0)
            ELSE 0
        rangePart ==
            IF GtTimes(At(d.Daily_Range_Pct, k), RollMean(d.Daily_Range_Pct, k, 20), 13)
            THEN (IF Gt(price_change_5, 0) THEN Q \div 2
                  ELSE IF Lt(price_change_5, 0) THEN 0 - Q \div 2
                  ELSE 0)
            ELSE 0
    IN  [score |-> atrPart + rangePart, signals |-> << >>]

_analyze_fx_breakout(k, d, ind) ==
    LET atr_pct == At(ind.ATR_Pct, k)
        atr_avg == RollMean(ind.ATR_Pct, k, 20)
        price_change_3 == At(ind.Price_Change_3, k)
        price_change_5 == At(ind.Price_Change_5, k)
        atrPart ==
            IF GtTimes(atr_pct, atr_avg, 12)
            THEN (IF Gt(price_change_3, (5 * Micro) \div 1000)
                  THEN [score |-> Q, signals |-> <<"upward_breakout">>]
                  ELSE IF Lt(price_change_3, 0 - (5 * Micro) \div 1000)
                  THEN [score |-> 0 - Q, signals |-> <<"downward_breakout">>]
                  ELSE [score |-> 0, signals |-> << >>])
            ELSE [score |-> 0, signals |-> << >>]
        daily_range_pct == At(d.Daily_Range_Pct, k)
        range_avg == RollMean(d.Daily_Range_Pct, k, 20)
        rangePart ==
            IF GtTimes(daily_range_pct, range_avg, 13)
            THEN (IF Gt(price_change_5, 0)
                  THEN [score |-> Q \div 2, signals |-> <<"range_break_up">>]
                  ELSE [score |-> 0 - Q \div 2, signals |-> <<"range_break_down">>])
            ELSE [score |-> 0, signals |-> << >>]
    IN  [score |-> atrPart.score + rangePart.score,
         signals |-> atrPart.signals \o rangePart.signals]

\* faulty variant: the active-session bonus given to the NY session as well
_analyze_fx_risk_ny_active(k, d, ind) ==
    LET volatility == At(ind.Volatility_10, k)
        vol_avg == RollMean(ind.Volatility_10, k, 50)
        volPart == IF LeTimes(volatility, vol_avg, 11) THEN Q
                   ELSE IF GeTimes(volatility, vol_avg, 15) THEN 0 - Q
                   ELSE 0
        session == _identify_trading_session(Row(d, k))
        sessPart == IF session \in {"Overlap", "London", "NY"} THEN Q \div 2
                    ELSE IF session = "Quiet" THEN 0 - Q \div 2
                    ELSE 0
    IN  [score |-> volPart + sessPart, signals |-> << >>, session |-> session]

_analyze_fx_risk(k, d, ind) ==
    LET volatility == At(ind.Volatility_10, k)
        vol_avg == RollMean(ind.Volatility_10, k, 50)
        volPart ==
            IF LeTimes(volatility, vol_avg, 11)
            THEN [score |-> Q, signals |-> <<"stable_market">>]
            ELSE IF GeTimes(volatility, vol_avg, 15)
            THEN [score |-> 0 - Q, signals |-> <<"volatile_market">>]
            ELSE [score |-> 0, signals |-> << >>]
        session == _identify_trading_session(Row(d, k))
        sessPart ==
            IF session \in {"Overlap", "London"}
            THEN [score |-> Q \div 2, signals |-> <<"active_session">>]
            ELSE IF session = "Quiet"
            THEN [score |-> 0 - Q \div 2, signals |-> <<"quiet_session">>]
            ELSE [score |-> 0, signals |-> << >>]
    IN  [score |-> volPart.score + sessPart.score,
         signals |-> volPart.signals \o sessPart.signals,
         session |-> session]

-----------------------------------------------------------------------------
(* Decision fuser *)

\* faulty variant: a strong threshold of 3.0
strong_threshold_3 == 3 * Q

\* thresholds 2.5 and 1.5 in 1/Q
strong_threshold == (25 * Q) \div 10
moderate_threshold == (15 * Q) \div 10

Take(s, n) == SubSeq(s, 1, Min2(n, Len(s)))

\* faulty variant: the risk score weighted by the session multiplier too
FinalScore_risk_weighted(momentum, mean_reversion, breakout, risk, session_multiplier) ==
    ((momentum.score + breakout.score + mean_reversion.score + risk.score)
        * session_multiplier) \div 10

\* final_score = total_trend + total_counter + total_risk
FinalScore(momentum, mean_reversion, breakout, risk, session_multiplier) ==
    LET trend_score   == momentum.score + breakout.score
        counter_score == mean_reversion.score
        total_trend   == (trend_score * session_multiplier) \div 10
        total_counter == (counter_score * session_multiplier) \div 10
        total_risk    == risk.score
    IN  total_trend + total_counter + total_risk

\* faulty variant: the confidence of a strong decision without the cap
StrongConfidence_uncapped(x) == x \div 4

\* min(x / 4, 1.0): the confidence of a strong decision
StrongConfidence(x) == Min2(x \div 4, Q)

\* faulty variant: the confidence of a partial position scaled by the position
_make_fx_decision_weak_scaled(momentum, mean_reversion, breakout, risk, session_multiplier) ==
    LET final_score == FinalScore(momentum, mean_reversion, breakout, risk, session_multiplier)
        all_signals == momentum.signals \o mean_reversion.signals
                         \o breakout.signals \o risk.signals
    IN  IF final_score >= strong_threshold
        THEN [signal |-> 1, position |-> Half,
              confidence |-> StrongConfidence(final_score),
              strategy |-> [label |-> "FX_BUY", tags |-> Take(all_signals, 3)]]
        ELSE IF final_score <= 0 - strong_threshold
        THEN [signal |-> 0 - 1, position |-> 0 - Half,
              confidence |-> StrongConfidence(Abs(final_score)),
              strategy |-> [label |-> "FX_SELL", tags |-> Take(all_signals, 3)]]
        ELSE IF final_score >= moderate_threshold
        THEN [signal |-> 1, position |-> Half \div 2,
              confidence |-> final_score \div 8,
              strategy |-> [label |-> "FX_WEAK_BUY", tags |-> Take(all_signals, 2)]]
        ELSE IF final_score <= 0 - moderate_threshold
        THEN [signal |-> 0 - 1, position |-> 0 - Half \div 2,
              confidence |-> Abs(final_score) \div 8,
              strategy |-> [label |-> "FX_WEAK_SELL", tags |-> Take(all_signals, 2)]]
        ELSE [signal |-> 0, position |-> 0, confidence |-> 0,
              strategy |-> [label |-> "FX_HOLD", tags |-> << >>]]

_make_fx_decision(momentum, mean_reversion, breakout, risk, session_multiplier) ==
    LET final_score == FinalScore(momentum, mean_reversion, breakout, risk, session_multiplier)
        all_signals == momentum.signals \o mean_reversion.signals
                         \o breakout.signals \o risk.signals
    IN  IF final_score >= strong_threshold
        THEN [signal |-> 1, position |-> Half,
              confidence |-> StrongConfidence(final_score),
              strategy |-> [label |-> "FX_BUY", tags |-> Take(all_signals, 3)]]
        ELSE IF final_score <= 0 - strong_threshold
        THEN [signal |-> 0 - 1, position |-> 0 - Half,
              confidence |-> StrongConfidence(Abs(final_score)),
              strategy |-> [label |-> "FX_SELL", tags |-> Take(all_signals, 3)]]
        ELSE IF final_score >= moderate_threshold
        THEN [signal |-> 1, position |-> Half \div 2,
              confidence |-> final_score \div 4,
              strategy |-> [label |-> "FX_WEAK_BUY", tags |-> Take(all_signals, 2)]]
        ELSE IF final_score <= 0 - moderate_threshold
        THEN [signal |-> 0 - 1, position |-> 0 - Half \div 2,
              confidence |-> Abs(final_score) \div 4,
              strategy |-> [label |-> "FX_WEAK_SELL", tags |-> Take(all_signals, 2)]]
        ELSE [signal |-> 0, position |-> 0, confidence |-> 0,
              strategy |-> [label |-> "FX_HOLD", tags |-> << >>]]


-----------------------------------------------------------------------------
(* Backtest / performance engine.  Returns and costs are in 1/Micro,       *)
(* cumulative equity in 1/Micro (Micro = 1.0), percentages in 1/Micro of   *)
(* a percent.                                                              *)

\* spread_cost 0.002, in 1/Micro
spread_cost == 2000

\* faulty variant: the column used unshifted
Shift1_missing(col) == col

\* Series.shift(1): NaN at bar 0, bar t holds the value of bar t-1
Shift1(col) == Col([k \in 1..Len(col) |-> IF k = 1 THEN NaN ELSE col[k - 1]])

\* Position.diff().abs(): NaN at bar 0
AbsDiff(col) ==
    Col([k \in 1..Len(col) |-> IF k = 1 THEN NaN ELSE Abs(col[k] - col[k - 1])])

\* Price.pct_change(): NaN at bar 0
Returns(price) == Col([k \in 1..Len(price) |-> PctChange(price, k - 1, 1)])

GrossReturns(pos, ret) ==
    LET sh == Shift1(pos)
    IN  Col([k \in 1..Len(pos) |->
                IF sh[k] = NaN \/ ret[k] = NaN THEN NaN ELSE (sh[k] * ret[k]) \div Half])

\* faulty variant: the signed position change, without .abs()
TradeCost_signed(pos) ==
    Col([k \in 1..Len(pos) |->
            IF k = 1 THEN NaN ELSE ((pos[k] - pos[k - 1]) * spread_cost) \div Half])

TradeCost(pos) ==
    LET position_changes == AbsDiff(pos)
    IN  Col([k \in 1..Len(pos) |->
                IF position_changes[k] = NaN THEN NaN
                ELSE (position_changes[k] * spread_cost) \div Half])

NetReturns(gross, cost) == Col([k \in 1..Len(gross) |-> Sub(gross[k], cost[k])])

FillNa0(x) == IF x = NaN THEN 0 ELSE x

\* (1 + net.fillna(0)).cumprod()
CumStep(net, acc) ==
    LET k == Len(acc)
        prev == IF k = 0 THEN Micro ELSE At(acc, k - 1)
    IN  IF k >= Len(net) THEN acc
        ELSE Append(acc, prev + ((prev \div Scale) * FillNa0(At(net, k))) \div Scale)

CumStep4(net, acc) == CumStep(net, CumStep(net, CumStep(net, CumStep(net, acc))))

RECURSIVE CumProd(_, _)
CumProd(net, acc) ==
    IF Len(acc) >= Len(net) THEN acc
    ELSE CumProd(net, CumStep4(net, CumStep4(net, acc)))

CountIf(col, P(_)) ==
    SumRange(Col([k \in 1..Len(col) |-> IF P(col[k]) THEN 1 ELSE 0]), 0, Len(col) - 1)

SumIf(col, P(_)) ==
    SumRange(Col([k \in 1..Len(col) |-> IF P(col[k]) THEN col[k] ELSE 0]), 0, Len(col) - 1)

IsTrade(x) == x = NaN \/ x # 0
IsWin(x)   == Gt(x, 0)
IsLose(x)  == Lt(x, 0)
NotNaN(x)  == x # NaN

\* Series.max()/min()/mean(): NaN entries skipped, NaN when nothing is left
RECURSIVE MaxIn(_, _, _)
MaxIn(col, lo, hi) ==
    IF lo > hi THEN NaN
    ELSE IF lo = hi THEN At(col, lo)
    ELSE LET mid == (lo + hi) \div 2
             a == MaxIn(col, lo, mid)
             b == MaxIn(col, mid + 1, hi)
         IN  IF a = NaN THEN b ELSE IF b = NaN THEN a ELSE Max2(a, b)

RECURSIVE MinIn(_, _, _)
MinIn(col, lo, hi) ==
    IF lo > hi THEN NaN
    ELSE IF lo = hi THEN At(col, lo)
    ELSE LET mid == (lo + hi) \div 2
             a == MinIn(col, lo, mid)
             b == MinIn(col, mid + 1, hi)
         IN  IF a = NaN THEN b ELSE IF b = NaN THEN a ELSE Min2(a, b)

MaxOf(col) == MaxIn(col, 0, Len(col) - 1)
MinOf(col) == MinIn(col, 0, Len(col) - 1)

MeanOf(col) ==
    LET n == CountIf(col, NotNaN)
    IN  IF n = 0 THEN NaN ELSE SumIf(col, NotNaN) \div n

SumSqDev(col, m) ==
    SumSqRange(Col([k \in 1..Len(col) |-> IF col[k] = NaN THEN 0 ELSE (col[k] - m) \div 10]),
               0, Len(col) - 1)

\* Series.std() (ddof = 1, NaN skipped): NaN with fewer than two values,
\* 0 exactly when all values are equal
StdOf(col) ==
    LET n == CountIf(col, NotNaN)
    IN  IF n < 2 THEN NaN
        ELSE IF MaxOf(col) = MinOf(col) THEN 0
        ELSE Max2(1, ISqrt(SumSqDev(col, MeanOf(col)) \div (n - 1)) * 10)

\* sqrt(252) in 1/Scale
Sqrt252 == ISqrt(252 * Scale * Scale)

_calculate_sharpe_ratio(returns) ==
    LET sd == StdOf(returns)
    IN  IF sd = 0 THEN 0
        ELSE IF sd = NaN \/ MeanOf(returns) = NaN THEN NaN
        ELSE (MeanOf(returns) * Sqrt252) \div sd

\* cumulative_returns.cummax()
CumMax(col) == Col([k \in 1..Len(col) |-> MaxIn(col, 0, k - 1)])

_calculate_max_drawdown(cumulative_returns) ==
    LET rolling_max == CumMax(cumulative_returns)
        drawdown == [k \in 1..Len(cumulative_returns) |->
                        ((cumulative_returns[k] - rolling_max[k]) * Scale) \div
                            (rolling_max[k] \div Scale)]
        m == MinOf(drawdown)
    IN  IF m = NaN THEN NaN ELSE m * 100

_empty_fx_metrics ==
    [Total_Return |-> 0, Gross_Return |-> 0, Trading_Costs |-> 0,
     Win_Rate |-> 0, Total_Trades |-> 0, Profitable_Trades |-> 0, Losing_Trades |-> 0,
     Avg_Win |-> 0, Avg_Loss |-> 0, Best_Trade |-> 0, Worst_Trade |-> 0,
     Profit_Factor |-> 0, Max_Drawdown |-> 0, Sharpe_Ratio |-> 0,
     Final_Portfolio_Value |-> Micro]

Times100(x) == IF x = NaN THEN NaN ELSE x * 100

\* faulty variant: the costs added onto a Trade_Cost column already there
PerformanceColumns_accumulating(sig) ==
    LET ret   == Returns(sig.Price)
        gross == GrossReturns(sig.Position, ret)
        fresh == TradeCost(sig.Position)
        cost  == IF "Trade_Cost" \in DOMAIN sig
                 THEN Col([k \in 1..Len(fresh) |->
                              IF fresh[k] = NaN \/ sig.Trade_Cost[k] = NaN THEN NaN
                              ELSE sig.Trade_Cost[k] + fresh[k]])
                 ELSE fresh
        net   == NetReturns(gross, cost)
    IN  [Price |-> sig.Price, Signal |-> sig.Signal, Position |-> sig.Position,
         Confidence |-> sig.Confidence, FX_Strategy |-> sig.FX_Strategy,
         Session |-> sig.Session,
         Returns |-> ret, Gross_Strategy_Returns |-> gross, Trade_Cost |-> cost,
         Net_Strategy_Returns |-> net, Cumulative_Returns |-> CumProd(net, << >>)]

\* the columns calculate_fx_performance adds to the signals table
PerformanceColumns(sig) ==
    LET ret   == Returns(sig.Price)
        gross == GrossReturns(sig.Position, ret)
        cost  == TradeCost(sig.Position)
        net   == NetReturns(gross, cost)
    IN  [Price |-> sig.Price, Signal |-> sig.Signal, Position |-> sig.Position,
         Confidence |-> sig.Confidence, FX_Strategy |-> sig.FX_Strategy,
         Session |-> sig.Session,
         Returns |-> ret, Gross_Strategy_Returns |-> gross, Trade_Cost |-> cost,
         Net_Strategy_Returns |-> net, Cumulative_Returns |-> CumProd(net, << >>)]

\* faulty variant: 0 instead of the unbounded value when nothing was lost
Profit_Factor_zero(n_lose, s_win, s_lose) ==
    IF n_lose > 0 THEN Abs((s_win * Scale) \div s_lose) ELSE 0

\* abs(winning.sum() / losing.sum()) if len(losing_trades) > 0 else
\* float('inf'), in 1/Scale
Profit_Factor(n_lose, s_win, s_lose) ==
    IF n_lose > 0 THEN Abs((s_win * Scale) \div s_lose) ELSE Inf

\* the report computed from the completed table
PerformanceMetrics(tab) ==
    LET net == tab.Net_Strategy_Returns
        cum == tab.Cumulative_Returns
        n_trades == CountIf(net, IsTrade)
        n_win  == CountIf(net, IsWin)
        n_lose == CountIf(net, IsLose)
        s_win  == SumIf(net, IsWin)
        s_lose == SumIf(net, IsLose)
    IN  IF n_trades = 0 THEN _empty_fx_metrics
        ELSE [Total_Return |-> (cum[Len(cum)] - Micro) * 100,
              Gross_Return |-> SumIf(tab.Gross_Strategy_Returns, NotNaN) * 100,
              Trading_Costs |-> SumIf(tab.Trade_Cost, NotNaN) * 100,
              Win_Rate |-> (n_win * 100 * Scale) \div n_trades,
              Total_Trades |-> CountIf(AbsDiff(tab.Position), IsWin),
              Profitable_Trades |-> n_win,
              Losing_Trades |-> n_lose,
              Avg_Win |-> IF n_win > 0 THEN (s_win \div n_win) * 100 ELSE 0,
              Avg_Loss |-> IF n_lose > 0 THEN (s_lose \div n_lose) * 100 ELSE 0,
              Best_Trade |-> Times100(MaxOf(net)),
              Worst_Trade |-> Times100(MinOf(net)),
              Profit_Factor |-> Profit_Factor(n_lose, s_win, s_lose),
              Max_Drawdown |-> _calculate_max_drawdown(cum),
              Sharpe_Ratio |-> _calculate_sharpe_ratio(net),
              Final_Portfolio_Value |-> cum[Len(cum)]]


-----------------------------------------------------------------------------
(* The engine as a state machine.  A caller either runs the whole analysis *)
(* (run_usdjpy_analysis: fetch, length check, indicators, signals,         *)
(* performance, report), or drives the stages itself on bars of its own    *)
(* ("direct"), or calls _make_fx_decision ("decide") or                    *)
(* calculate_fx_performance ("perf") on values of its own.                 *)

\* faulty variant: a loop that starts ten bars early
WarmUp_early == 50 - 10

\* first scored bar: range(50, len(signals))
WarmUp == 50

\* faulty variant: the length check done against the warm-up
MinBars_warmup == WarmUp

\* run_usdjpy_analysis refuses fewer bars than this
MinBars == 100

MaxBars == 100
MaxDirectBars == 51
LongDirectBars == 74
TurnBar == 40
NPats == 5
NWicks == 2
MaxPerfLen == 3
MaxMomentum == 6
MaxReversion == 8
MaxBreakout == 3
MaxRisk == 3
\* the longest table of a caller's own that is passed to
\* calculate_fx_performance a second time
MaxAgainLen == 2
\* a second pass keeps the bars 0..cut of the first and replaces the rest
\* by TwinExtra bars of its own
TwinCut == 60
TwinExtra == 5

None == [Close |-> << >>, none |-> TRUE]
IsNone(d) == "none" \in DOMAIN d

NoSignals == [Price |-> << >>, Signal |-> << >>, Position |-> << >>,
              Confidence |-> << >>, FX_Strategy |-> << >>, Session |-> << >>]
NoPerformance == [none |-> TRUE]
Pending == [kind |-> "pending"]
NoShadow == [none |-> TRUE]
HasShadow == "cut" \in DOMAIN shadow

\* the bars of a second series that agrees with raw on the bars 0..cut and
\* continues with extra bars of its own: closes falling then jumping by more
\* than any step of Pats, wider wicks, hours running 7 ahead
TwinDelta == <<0 - 3, 4, 3>>

TwinBars(raw, cut, extra) ==
    LET n == cut + 1 + extra
        c == Col([k \in 1..n |->
                    IF k <= cut + 1 THEN raw.Close[k]
                    ELSE raw.Close[cut + 1]
                           + SumRange(Col([j \in 1..extra |-> Cyc(TwinDelta, j - 1)]),
                                      0, k - cut - 2)])
    IN  [Close |-> c,
         High  |-> [k \in 1..n |-> IF k <= cut + 1 THEN raw.High[k] ELSE c[k] + 3],
         Low   |-> [k \in 1..n |-> IF k <= cut + 1 THEN raw.Low[k] ELSE c[k] - 3],
         Hour  |-> [k \in 1..n |-> IF k <= cut + 1 THEN raw.Hour[k]
                                   ELSE (raw.Hour[cut + 1] + 7 * (k - cut - 1)) % 24]]

RunLens == {1, MinBars - 1} \cup (MinBars..MaxBars)
DirectLens == {0, 1, 2, WarmUp - 1, LongDirectBars} \cup (WarmUp..MaxDirectBars)
DirectHours == {<<0, 0>>, <<0, 1>>}
PerfPrices == {100, 101, 105}
Positions == {0 - Half, 0 - Half \div 2, 0, Half \div 2, Half}
Multipliers == {7, 10, 11, 12, 13}
\* sub-score inputs: the multiples of 0.5 up to m halves either way
Halves(m) == {k * (Q \div 2) : k \in (0 - m)..m}

NoStrategy == [label |-> "", tags |-> << >>]

\* no rate provider constructed
NoProvider == [pc |-> "none"]

\* no concurrent calls under way
NoRuns == [call |-> << >>, frame |-> << >>, last |-> 0]

Init ==
    /\ entry = "none"
    /\ pc = "idle"
    /\ data = None
    /\ indicators = NoIndicators
    /\ signals = NoSignals
    /\ i = 0
    /\ trace = << >>
    /\ performance = NoPerformance
    /\ result = Pending
    /\ shadow = NoShadow
    /\ runs = NoRuns
    /\ provider = NoProvider

CallRun ==
    /\ pc = "idle"
    /\ entry' = "run"
    /\ pc' = "fetch"
    /\ UNCHANGED <<data, indicators, signals, i, trace, performance, result, shadow, runs, provider>>

\* fetch_usdjpy_data: None on an empty answer or an error, else the daily
\* bars (every timestamp at hour 0) with the derived features
fetch_usdjpy_data ==
    /\ pc = "fetch"
    /\ \/ data' = None
       \/ \E n \in RunLens, p1 \in 1..NPats, p2 \in 1..NPats, w \in 1..NWicks :
             data' = _add_usdjpy_features(RawBars(n, p1, p2, TurnBar, w, 0, 0))
    /\ pc' = "check"
    /\ UNCHANGED <<entry, indicators, signals, i, trace, performance, result, shadow, runs, provider>>

\* if data is None or len(data) < 100: return None
InsufficientData ==
    /\ pc = "check"
    /\ (IsNone(data) \/ BarCount(data) < MinBars)
    /\ result' = [kind |-> "None"]
    /\ pc' = "done"
    /\ UNCHANGED <<entry, data, indicators, signals, i, trace, performance, shadow, runs, provider>>

SufficientData ==
    /\ pc = "check"
    /\ ~(IsNone(data) \/ BarCount(data) < MinBars)
    /\ pc' = "indicators"
    /\ UNCHANGED <<entry, data, indicators, signals, i, trace, performance, result, shadow, runs, provider>>

CallDirect ==
    /\ pc = "idle"
    /\ entry' = "direct"
    /\ \E n \in DirectLens, p1 \in 1..NPats, p2 \in 1..NPats, w \in 0..NWicks,
          h \in DirectHours :
             data' = _add_usdjpy_features(RawBars(n, p1, p2, TurnBar, w, h[1], h[2]))
    /\ pc' = "indicators"
    /\ UNCHANGED <<indicators, signals, i, trace, performance, result, shadow, runs, provider>>

\* a second pass on the same instance: the stages are called again on bars
\* that agree with the first pass up to bar cut
CallAgain ==
    /\ pc = "done"
    /\ entry = "direct"
    /\ ~HasShadow
    /\ \E cut \in {WarmUp, TwinCut} :
         /\ cut < BarCount(data)
         /\ shadow' = [cut |-> cut, data |-> data, indicators |-> indicators,
                       signals |-> signals, trace |-> trace]
         /\ data' = _add_usdjpy_features(TwinBars(data, cut, TwinExtra))
    /\ pc' = "indicators"
    /\ UNCHANGED <<entry, indicators, signals, i, trace, performance, result, runs, provider>>

\* faulty variant: the MACD column written into the bar table as well
CalcIndicators_in_place ==
    /\ pc = "indicators"
    /\ indicators' = calculate_fx_optimized_indicators(data)
    /\ data' = data @@ [MACD |-> calculate_fx_optimized_indicators(data).MACD]
    /\ pc' = "signals"
    /\ UNCHANGED <<entry, signals, i, trace, performance, result, shadow, runs, provider>>

CalcIndicators ==
    /\ pc = "indicators"
    /\ indicators' = calculate_fx_optimized_indicators(data)
    /\ pc' = "signals"
    /\ UNCHANGED <<entry, data, signals, i, trace, performance, result, shadow, runs, provider>>

\* generate_fx_signals, lines 135-143: the table before the loop
StartSignals ==
    /\ pc = "signals"
    /\ signals' = [Price       |-> data.Close,
                   Signal      |-> [k \in 1..BarCount(data) |-> 0],
                   Position    |-> [k \in 1..BarCount(data) |-> 0],
                   Confidence  |-> [k \in 1..BarCount(data) |-> 0],
                   FX_Strategy |-> [k \in 1..BarCount(data) |-> NoStrategy],
                   Session     |-> [k \in 1..BarCount(data) |-> ""]]
    /\ i' = WarmUp
    /\ trace' = << >>
    /\ pc' = "loop"
    /\ UNCHANGED <<entry, data, indicators, performance, result, shadow, runs, provider>>

\* what one pass of the loop body computes for bar k
ScoreOf(k, d, ind) ==
    LET session == _identify_trading_session(Row(d, k))
        fx_momentum == _analyze_fx_momentum(k, ind)
        fx_mean_reversion == _analyze_fx_mean_reversion(k, ind)
        fx_breakout == _analyze_fx_breakout(k, d, ind)
        fx_risk == _analyze_fx_risk(k, d, ind)
        session_multiplier == _get_session_multiplier(session)
    IN  [session |-> session,
         decision |-> _make_fx_decision(fx_momentum, fx_mean_reversion, fx_breakout,
                                        fx_risk, session_multiplier),
         locals |-> [bar |-> k,
                     momentum |-> fx_momentum.score,
                     mean_reversion |-> fx_mean_reversion.score,
                     breakout |-> fx_breakout.score,
                     risk |-> fx_risk.score,
                     risk_session |-> fx_risk.session,
                     session_multiplier |-> session_multiplier,
                     final_score |-> FinalScore(fx_momentum, fx_mean_reversion,
                                                fx_breakout, fx_risk, session_multiplier)]]

\* generate_fx_signals, lines 145-168: one pass of the loop.  The chained
\* assignments signals[col].iloc[i] = v write through to the table (pandas
\* without copy-on-write).
ScoreBar ==
    /\ pc = "loop"
    /\ i < BarCount(data)
    /\ LET s == ScoreOf(i, data, indicators)
       IN  /\ signals' = [signals EXCEPT !.Session[i + 1] = s.session,
                                         !.Signal[i + 1] = s.decision.signal,
                                         !.Position[i + 1] = s.decision.position,
                                         !.Confidence[i + 1] = s.decision.confidence,
                                         !.FX_Strategy[i + 1] = s.decision.strategy]
           /\ trace' = Append(trace, s.locals)
    /\ i' = i + 1
    /\ UNCHANGED <<entry, pc, data, indicators, performance, result, shadow, runs, provider>>

\* generate_fx_signals returns the table
EndSignals ==
    /\ pc = "loop"
    /\ i >= BarCount(data)
    /\ pc' = "performance"
    /\ UNCHANGED <<entry, data, indicators, signals, i, trace, performance, result, shadow, runs, provider>>

CallPerformance ==
    /\ pc = "idle"
    /\ entry' = "perf"
    /\ \E n \in 0..MaxPerfLen :
         \E price \in [1..n -> PerfPrices], pos \in [1..n -> Positions] :
             signals' = [Price       |-> price,
                         Signal      |-> [k \in 1..n |-> IF pos[k] > 0 THEN 1
                                                         ELSE IF pos[k] < 0 THEN 0 - 1 ELSE 0],
                         Position    |-> pos,
                         Confidence  |-> [k \in 1..n |-> 0],
                         FX_Strategy |-> [k \in 1..n |-> NoStrategy],
                         Session     |-> [k \in 1..n |-> ""]]
    /\ pc' = "performance"
    /\ UNCHANGED <<data, indicators, i, trace, performance, result, shadow, runs, provider>>

calculate_fx_performance ==
    /\ pc = "performance"
    /\ signals' = PerformanceColumns(signals)
    /\ performance' = PerformanceMetrics(PerformanceColumns(signals))
    /\ pc' = IF entry = "run" THEN "report" ELSE "done"
    /\ UNCHANGED <<entry, data, indicators, i, trace, result, shadow, runs, provider>>

\* the caller passes the table it got back to calculate_fx_performance once
\* more: every column assignment of lines 398-410 overwrites the column
calculate_fx_performance_again ==
    /\ pc = "done"
    /\ entry \in {"run", "direct", "perf"}
    /\ "Gross_Strategy_Returns" \in DOMAIN signals
    /\ entry = "perf" => Len(signals.Price) <= MaxAgainLen
    /\ signals' = PerformanceColumns(signals)
    /\ performance' = PerformanceMetrics(signals')
    /\ pc' = "again"
    /\ UNCHANGED <<entry, data, indicators, i, trace, result, shadow, runs, provider>>

\* run_usdjpy_analysis returns {'performance', 'signals', 'data', 'indicators'}
Report ==
    /\ pc = "report"
    /\ result' = [kind |-> "report"]
    /\ pc' = "done"
    /\ UNCHANGED <<entry, data, indicators, signals, i, trace, performance, shadow, runs, provider>>

Score(v) == [score |-> v, signals |-> << >>]

CallDecide ==
    /\ pc = "idle"
    /\ entry' = "decide"
    /\ \E mo \in Halves(MaxMomentum), re \in Halves(MaxReversion),
          br \in Halves(MaxBreakout), rk \in Halves(MaxRisk), m \in Multipliers :
         /\ result' = [kind |-> "decision",
                       decision |-> _make_fx_decision(Score(mo), Score(re), Score(br),
                                                      Score(rk), m)]
         /\ trace' = << [bar |-> 0, momentum |-> mo, mean_reversion |-> re,
                         breakout |-> br, risk |-> rk, risk_session |-> "",
                         session_multiplier |-> m,
                         final_score |-> FinalScore(Score(mo), Score(re), Score(br),
                                                    Score(rk), m)] >>
    /\ pc' = "done"
    /\ UNCHANGED <<data, indicators, signals, i, performance, shadow, runs, provider>>

Next ==
    \/ CallRun
    \/ fetch_usdjpy_data
    \/ InsufficientData
    \/ SufficientData
    \/ CallDirect
    \/ CalcIndicators
    \/ StartSignals
    \/ ScoreBar
    \/ EndSignals
    \/ CallPerformance
    \/ calculate_fx_performance
    \/ calculate_fx_performance_again
    \/ Report
    \/ CallDecide

Spec == Init /\ [][Next]_vars

\* a caller that drives the stages itself, once and then once more on a
\* series that shares a prefix with the first
TwinNext ==
    \/ CallDirect
    \/ CalcIndicators
    \/ StartSignals
    \/ ScoreBar
    \/ EndSignals
    \/ calculate_fx_performance
    \/ CallAgain

SpecTwin == Init /\ [][TwinNext]_vars

-----------------------------------------------------------------------------
(* Two callers at once.  Each caller drives the stages on bars of its own, *)
(* on the same engine instance or on two instances; the steps of the two   *)
(* calls interleave in any order.  The engine keeps nothing on the         *)
(* instance but the constants set by __init__: data, indicators, signals,  *)
(* the loop index and the report are locals of the call, kept here in one  *)
(* frame per call.                                                         *)

PairBars == 52
\* close patterns a caller chooses from; the two callers never pass the
\* same bars
NPairPats == 2

Callers == {1, 2}

\* the locals of a call before it has started
NoFrame == [data |-> None, indicators |-> NoIndicators, signals |-> NoSignals,
            i |-> 0, performance |-> NoPerformance]

\* faulty variant: the locals kept as attributes of the instance, so that
\* two calls on one instance share them
FrameOf_instance(r) == runs.call[r].self

\* the frame that holds the locals of call r
FrameOf(r) == r

\* generate_fx_signals as a whole: the table after the loop has run
generate_fx_signals(d, ind) ==
    LET n == BarCount(d)
        s == [k \in 1..n |-> IF k - 1 >= WarmUp THEN ScoreOf(k - 1, d, ind).decision
                              ELSE [signal |-> 0, position |-> 0, confidence |-> 0,
                                    strategy |-> NoStrategy]]
    IN  [Price       |-> d.Close,
         Signal      |-> [k \in 1..n |-> s[k].signal],
         Position    |-> [k \in 1..n |-> s[k].position],
         Confidence  |-> [k \in 1..n |-> s[k].confidence],
         FX_Strategy |-> [k \in 1..n |-> s[k].strategy],
         Session     |-> [k \in 1..n |-> IF k - 1 >= WarmUp
                                          THEN _identify_trading_session(Row(d, k - 1))
                                          ELSE ""]]

\* what a caller gets from the stages when nobody else is calling
Alone(raw) ==
    LET d   == _add_usdjpy_features(raw)
        ind == calculate_fx_optimized_indicators(d)
        tab == PerformanceColumns(generate_fx_signals(d, ind))
    IN  [data |-> d, indicators |-> ind, signals |-> tab,
         performance |-> PerformanceMetrics(tab)]

\* caller 1 uses instance 1, caller 2 the same instance or one of its own
PairInit ==
    /\ entry = "none"
    /\ pc = "idle"
    /\ data = None
    /\ indicators = NoIndicators
    /\ signals = NoSignals
    /\ i = 0
    /\ trace = << >>
    /\ performance = NoPerformance
    /\ result = Pending
    /\ shadow = NoShadow
    /\ provider = NoProvider
    /\ \E inst \in Callers :
          runs = [call  |-> [r \in Callers |->
                               [pc |-> "idle", self |-> IF r = 1 THEN 1 ELSE inst,
                                alone |-> Pending, ret |-> Pending]],
                  frame |-> [f \in Callers |-> NoFrame],
                  last  |-> 0]

PairRest == UNCHANGED <<entry, pc, data, indicators, signals, i, trace, performance,
                        result, shadow, provider>>

\* one step of call r: its position moves to next and its frame becomes fr
PairStep(r, next, fr) ==
    /\ runs' = [runs EXCEPT !.call[r].pc = next, !.frame[FrameOf(r)] = fr, !.last = r]
    /\ PairRest

\* the caller passes bars of its own: caller 1 one of the first NPairPats
\* patterns, caller 2 one of those two further on, each turning into the
\* next pattern at the turn bar, with wicks and hours of its own
PairCall(r) ==
    /\ runs.call[r].pc = "idle"
    /\ \E p \in 1..NPairPats :
         LET q   == p + 2 * (r - 1)
             raw == RawBars(PairBars, q, q + 1, TurnBar, r, 3 * r, 1)
         IN  /\ runs' = [runs EXCEPT !.call[r].pc = "indicators",
                                     !.call[r].alone = Alone(raw),
                                     !.frame[FrameOf(r)].data = _add_usdjpy_features(raw),
                                     !.last = r]
             /\ PairRest

PairIndicators(r) ==
    /\ runs.call[r].pc = "indicators"
    /\ LET fr == runs.frame[FrameOf(r)]
       IN  PairStep(r, "signals",
                    [fr EXCEPT !.indicators = calculate_fx_optimized_indicators(fr.data)])

PairStartSignals(r) ==
    /\ runs.call[r].pc = "signals"
    /\ LET fr == runs.frame[FrameOf(r)]
           n  == BarCount(fr.data)
       IN  PairStep(r, "loop",
                    [fr EXCEPT !.signals = [Price       |-> fr.data.Close,
                                            Signal      |-> [k \in 1..n |-> 0],
                                            Position    |-> [k \in 1..n |-> 0],
                                            Confidence  |-> [k \in 1..n |-> 0],
                                            FX_Strategy |-> [k \in 1..n |-> NoStrategy],
                                            Session     |-> [k \in 1..n |-> ""]],
                               !.i = WarmUp])

PairScoreBar(r) ==
    /\ runs.call[r].pc = "loop"
    /\ LET fr == runs.frame[FrameOf(r)]
           s  == ScoreOf(fr.i, fr.data, fr.indicators)
       IN  /\ fr.i < BarCount(fr.data)
           /\ PairStep(r, "loop",
                       [fr EXCEPT !.signals.Session[fr.i + 1] = s.session,
                                  !.signals.Signal[fr.i + 1] = s.decision.signal,
                                  !.signals.Position[fr.i + 1] = s.decision.position,
                                  !.signals.Confidence[fr.i + 1] = s.decision.confidence,
                                  !.signals.FX_Strategy[fr.i + 1] = s.decision.strategy,
                                  !.i = fr.i + 1])

PairEndSignals(r) ==
    /\ runs.call[r].pc = "loop"
    /\ LET fr == runs.frame[FrameOf(r)]
       IN  /\ fr.i >= BarCount(fr.data)
           /\ PairStep(r, "performance", fr)

\* calculate_fx_performance, and the four results handed back to the caller
PairPerformance(r) ==
    /\ runs.call[r].pc = "performance"
    /\ LET fr  == runs.frame[FrameOf(r)]
           tab == PerformanceColumns(fr.signals)
           out == [fr EXCEPT !.signals = tab, !.performance = PerformanceMetrics(tab)]
       IN  /\ runs' = [runs EXCEPT !.call[r].pc = "done",
                                   !.call[r].ret = [data |-> out.data,
                                                    indicators |-> out.indicators,
                                                    signals |-> out.signals,
                                                    performance |-> out.performance],
                                   !.frame[FrameOf(r)] = out,
                                   !.last = r]
           /\ PairRest

PairNext ==
    \E r \in Callers :
        \/ PairCall(r)
        \/ PairIndicators(r)
        \/ PairStartSignals(r)
        \/ PairScoreBar(r)
        \/ PairEndSignals(r)
        \/ PairPerformance(r)

SpecPair == PairInit /\ [][PairNext]_vars

-----------------------------------------------------------------------------
(* The rate provider of src/aws_fx_phase2_2.py.  A rate is an integer in   *)
(* 1/RateUnit, so a rate of the model has at most four decimals; NaN is    *)
(* the float NaN.  A key missing from an API payload is the value 0: the   *)
(* code treats None and 0 alike (both are falsy at line 421).              *)

RateUnit == 10000

RECURSIVE Pow10(_)
Pow10(n) == IF n <= 0 THEN 1 ELSE 10 * Pow10(n - 1)

\* round(x, d): the nearest multiple of 10^-d, a tie to the even one
RoundTo(x, d) ==
    IF x = NaN \/ Pow10(d) >= RateUnit THEN x
    ELSE LET step == RateUnit \div Pow10(d)
             lo   == (x \div step) * step
             rem  == x - lo
         IN  IF 2 * rem < step THEN lo
             ELSE IF 2 * rem > step THEN lo + step
             ELSE IF (lo \div step) % 2 = 0 THEN lo ELSE lo + step

\* len(str(rate).split('.')[-1]) if '.' in str(rate) else 0: str() of a
\* float shows at least one decimal ('150.0') and none for 'nan' and 'inf'
DecimalPlaces(rate) ==
    IF rate = NaN \/ Abs(rate) = Inf THEN 0
    ELSE LET f == Abs(rate) % RateUnit
         IN  IF f % 1000 = 0 THEN 1
             ELSE IF f % 100 = 0 THEN 2
             ELSE IF f % 10 = 0 THEN 3
             ELSE 4

SupportedPairs == {"USD/JPY", "EUR/JPY", "EUR/USD"}

\* ManualRateManager.rate_ranges
rate_ranges ==
    [p \in SupportedPairs |->
        IF p = "USD/JPY"
        THEN [min |-> 80 * RateUnit, max |-> 250 * RateUnit, decimal |-> 3]
        ELSE IF p = "EUR/JPY"
        THEN [min |-> 100 * RateUnit, max |-> 300 * RateUnit, decimal |-> 4]
        ELSE [min |-> RateUnit \div 2, max |-> 2 * RateUnit, decimal |-> 4]]

\* EnhancedFXDataProvider.fallback_rates: 147.49, 173.16, 1.174
fallback_rates ==
    [p \in SupportedPairs |->
        IF p = "USD/JPY" THEN 1474900
        ELSE IF p = "EUR/JPY" THEN 1731600 ELSE 11740]

\* ManualRateManager.validate_manual_rate; "rate < min or rate > max" is
\* false for NaN on both sides
validate_manual_rate(pair, rate) ==
    IF pair \notin DOMAIN rate_ranges
    THEN [valid |-> FALSE, error |-> "pair"]
    ELSE LET range_info == rate_ranges[pair]
         IN  IF Lt(rate, range_info.min) \/ Gt(rate, range_info.max)
             THEN [valid |-> FALSE, error |-> "range"]
             ELSE IF DecimalPlaces(rate) > range_info.decimal
             THEN [valid |-> FALSE, error |-> "decimal"]
             ELSE [valid |-> TRUE, rate |-> RoundTo(rate, range_info.decimal)]

\* name and retries of EnhancedFXDataProvider.api_configs, in list order
api_configs ==
    << [name |-> "exchangerate-api",  retries |-> 3],
       [name |-> "exchangerate-host", retries |-> 2],
       [name |-> "fxratesapi",        retries |-> 2],
       [name |-> "vatcomply",         retries |-> 1] >>

\* _try_urllib_apis: simple_apis, two URLs tried once each
simple_apis == <<"exchangerate-api", "exchangerate-host">>

\* no result yet (Python None)
NoResult == [source |-> "None"]

\* EnhancedFXDataProvider._validate_rate
_validate_rate(pair, rate) ==
    IF pair \in SupportedPairs
    THEN Le(rate_ranges[pair].min, rate) /\ Le(rate, rate_ranges[pair].max)
    ELSE Gt(rate, 0)

\* a / b of two rates, b with two decimals
RateQuot(a, b) == (a * 100) \div (b \div 100)

\* the 'rate' _parse_api_data reads from a payload, 0 for None
PayloadRate(payload, pair) ==
    IF payload.format = "unknown" THEN 0
    ELSE IF pair = "USD/JPY" THEN payload.JPY
    ELSE IF pair = "EUR/JPY"
    THEN IF payload.EUR > 0 THEN RateQuot(payload.JPY, payload.EUR) ELSE 0
    ELSE IF pair = "EUR/USD"
    THEN IF payload.format = "base"
         THEN IF payload.EUR > 0 THEN RateQuot(RateUnit, payload.EUR) ELSE 0
         ELSE payload.EUR
    ELSE 0

\* EnhancedFXDataProvider._parse_api_data
_parse_api_data(payload, pair, api_name) ==
    LET rate == PayloadRate(payload, pair)
    IN  IF rate # 0 /\ _validate_rate(pair, rate)
        THEN [rate |-> RoundTo(rate, 4), source |-> "Live API",
              api_provider |-> api_name, manual_input_required |-> FALSE]
        ELSE NoResult

\* EnhancedFXDataProvider._create_manual_rate_response
_create_manual_rate_response(pair, rate) ==
    [rate |-> RoundTo(rate, 4), source |-> "Manual Input",
     api_provider |-> "manual-user-input", manual_input_required |-> FALSE]

\* EnhancedFXDataProvider._get_manual_input_fallback
_get_manual_input_fallback(pair) ==
    [rate |-> RoundTo(IF pair \in DOMAIN fallback_rates THEN fallback_rates[pair]
                      ELSE 100 * RateUnit, 4),
     source |-> "Manual Input Required",
     api_provider |-> "fallback-manual-required", manual_input_required |-> TRUE]

\* what one request can come to: an exception of requests or of the JSON
\* decoder, or a response with a status and a payload
Payloads ==
    { [format |-> "base",  JPY |-> 1481200, EUR |-> 8500],
      [format |-> "rates", JPY |-> 1481200, EUR |-> 8500],
      [format |-> "base",  JPY |-> 2600000, EUR |-> 8500],
      [format |-> "base",  JPY |-> 0,       EUR |-> 0],
      [format |-> "unknown", JPY |-> 0, EUR |-> 0] }
Outcomes ==
    {[kind |-> e, status |-> 0, payload |-> [format |-> "unknown", JPY |-> 0, EUR |-> 0]] :
        e \in {"Timeout", "ConnectionError", "RequestException", "JSONDecodeError",
               "Exception"}}
        \cup {[kind |-> "response", status |-> st, payload |-> pl] :
                 st \in {200, 503}, pl \in Payloads}

\* the result an attempt yields: the parsed one of a 200 response whose
\* rate is positive, None otherwise
Yield(out, pair, api_name) ==
    IF out.kind = "response" /\ out.status = 200
    THEN LET r == _parse_api_data(out.payload, pair, api_name)
         IN  IF r.source # "None" /\ r.rate > 0 THEN r ELSE NoResult
    ELSE NoResult

MaxCalls == 2

\* manual_rate: None, or a float: 147.49, 147.4905, 1.174, 300.0, NaN
NoManualRate == [given |-> FALSE, value |-> 0]
ManualRates ==
    {NoManualRate} \cup
        {[given |-> TRUE, value |-> v] : v \in {1474900, 1474905, 11740, 3000000, NaN}}

\* EnhancedFXDataProvider.__init__, in a process where the import of
\* requests succeeded or did not; log and at_call are history: the attempts
\* of the call under way (API index, whether it yielded a result) and the
\* bookkeeping as the call found it
NewProvider(requests_available) ==
    [REQUESTS_AVAILABLE  |-> requests_available,
     pc                  |-> "idle",
     pair                |-> "",
     manual_rate         |-> NoManualRate,
     api_idx             |-> 0,
     attempt             |-> 0,
     last_successful_api |-> "None",
     api_success_count   |-> [n \in {api_configs[k].name : k \in 1..Len(api_configs)} |-> 0],
     result              |-> NoResult,
     calls               |-> 0,
     log                 |-> << >>,
     at_call             |-> [last_successful_api |-> "None",
                              api_success_count   |-> [n \in {api_configs[k].name : k \in 1..Len(api_configs)} |-> 0]]]

RateInit ==
    /\ entry = "none"
    /\ pc = "idle"
    /\ data = None
    /\ indicators = NoIndicators
    /\ signals = NoSignals
    /\ i = 0
    /\ trace = << >>
    /\ performance = NoPerformance
    /\ result = Pending
    /\ shadow = NoShadow
    /\ runs = NoRuns
    /\ \E requests_available \in BOOLEAN : provider = NewProvider(requests_available)

RateRest == UNCHANGED <<entry, pc, data, indicators, signals, i, trace, performance,
                        result, shadow, runs>>

\* faulty variant: the API remembered, its count left alone
RecordSuccess_last_only(prov, api_name) ==
    [prov EXCEPT !.last_successful_api = api_name]

\* lines 319-320
RecordSuccess(prov, api_name) ==
    [prov EXCEPT !.last_successful_api = api_name,
                 !.api_success_count[api_name] = @ + 1]

\* a caller calls get_real_fx_rate(pair, timezone, manual_rate)
get_real_fx_rate ==
    /\ provider.pc \in {"idle", "returned"}
    /\ provider.calls < MaxCalls
    /\ \E pair \in SupportedPairs \cup {"GBP/USD"}, manual_rate \in ManualRates :
          provider' = [provider EXCEPT
                          !.pc = IF manual_rate.given THEN "manual" ELSE "chain",
                          !.pair = pair,
                          !.manual_rate = manual_rate,
                          !.api_idx = 0,
                          !.attempt = 0,
                          !.result = NoResult,
                          !.calls = @ + 1,
                          !.log = << >>,
                          !.at_call = [last_successful_api |-> provider.last_successful_api,
                                       api_success_count   |-> provider.api_success_count]]
    /\ RateRest

\* lines 274-280: a manual rate that validates is returned, any other is
\* dropped and the APIs are tried
ManualRate ==
    /\ provider.pc = "manual"
    /\ LET validation == validate_manual_rate(provider.pair, provider.manual_rate.value)
       IN  provider' =
              IF validation.valid
              THEN [provider EXCEPT
                       !.result = _create_manual_rate_response(provider.pair, validation.rate),
                       !.pc = "returned"]
              ELSE [provider EXCEPT !.pc = "chain"]
    /\ RateRest

\* line 282: without requests the urllib loop, with it the loop of line 294
StartApis ==
    /\ provider.pc = "chain"
    /\ provider' = [provider EXCEPT
                       !.pc = IF provider.REQUESTS_AVAILABLE THEN "api" ELSE "urllib",
                       !.api_idx = 1,
                       !.attempt = 0]
    /\ RateRest

\* one pass of the inner loop of lines 298-346
ApiAttempt ==
    /\ provider.pc = "api"
    /\ \E out \in Outcomes :
          LET api_config == api_configs[provider.api_idx]
              res    == Yield(out, provider.pair, api_config.name)
              logged == [provider EXCEPT
                            !.log = Append(@, [api |-> provider.api_idx,
                                               yielded |-> res.source # "None"])]
          IN  provider' =
                 IF res.source # "None"
                 THEN [RecordSuccess(logged, api_config.name) EXCEPT
                          !.result = res, !.pc = "returned"]
                 ELSE IF provider.attempt < api_config.retries
                 THEN [logged EXCEPT !.attempt = @ + 1]
                 ELSE IF provider.api_idx < Len(api_configs)
                 THEN [logged EXCEPT !.api_idx = @ + 1, !.attempt = 0]
                 ELSE [logged EXCEPT !.pc = "failed"]
    /\ RateRest

\* lines 348-350
AllApisFailed ==
    /\ provider.pc = "failed"
    /\ provider' = [provider EXCEPT
                       !.result = _get_manual_input_fallback(provider.pair),
                       !.pc = "returned"]
    /\ RateRest

\* one pass of the loop of _try_urllib_apis
UrllibAttempt ==
    /\ provider.pc = "urllib"
    /\ \E out \in Outcomes :
          LET res    == Yield(out, provider.pair, "urllib")
              logged == [provider EXCEPT
                            !.log = Append(@, [api |-> provider.api_idx,
                                               yielded |-> res.source # "None"])]
          IN  provider' =
                 IF res.source # "None"
                 THEN [logged EXCEPT !.result = res, !.pc = "returned"]
                 ELSE IF provider.api_idx < Len(simple_apis)
                 THEN [logged EXCEPT !.api_idx = @ + 1]
                 ELSE [logged EXCEPT !.pc = "urllib_failed"]
    /\ RateRest

\* line 384, then lines 285-289
UrllibFailed ==
    /\ provider.pc = "urllib_failed"
    /\ provider' = [provider EXCEPT
                       !.result = [_get_manual_input_fallback(provider.pair) EXCEPT
                                      !.manual_input_required = TRUE],
                       !.pc = "returned"]
    /\ RateRest

\* the steps of a call under way
RateStep ==
    \/ ManualRate
    \/ StartApis
    \/ ApiAttempt
    \/ AllApisFailed
    \/ UrllibAttempt
    \/ UrllibFailed

RateNext ==
    \/ get_real_fx_rate
    \/ RateStep

\* a call under way runs on: every request returns or raises within its
\* timeout, and nothing else in the call waits
SpecRate == RateInit /\ [][RateNext]_vars /\ WF_vars(RateStep)

-----------------------------------------------------------------------------
(* Properties.  Thresholds, multipliers and hour ranges are written out    *)
(* as the numbers the specification gives, not through the definitions     *)
(* above.                                                                  *)

Pipeline == entry \in {"run", "direct"}
TableReady == pc \in {"loop", "performance", "report", "done"}
HasPerformanceColumns == "Gross_Strategy_Returns" \in DOMAIN signals

\* the decision recorded in the table for bar k
DecisionAt(tab, k) ==
    [signal |-> At(tab.Signal, k), position |-> At(tab.Position, k),
     confidence |-> At(tab.Confidence, k)]

\* C1: after generate_fx_signals every bar with index < 50 carries the hold
\* decision (signal 0, position 0, confidence 0) and no such bar is scored
C1_WarmUpBarsHold ==
    Pipeline =>
        /\ \A k \in 0..(Len(signals.Signal) - 1) :
              k < 50 => DecisionAt(signals, k) = [signal |-> 0, position |-> 0,
                                                  confidence |-> 0]
        /\ \A j \in 1..Len(trace) : trace[j].bar >= 50

C1_Witness ==
    /\ entry = "direct"
    /\ pc = "done"
    /\ Len(signals.Signal) > 50
    /\ \E k \in 50..(Len(signals.Signal) - 1) : At(signals.Position, k) # 0
    /\ \A k \in 0..49 : At(signals.Position, k) = 0

\* C2: every decision of a produced series, and every output of
\* _make_fx_decision, has position in [-1, 1] and confidence in [0, 1]
C2_PositionAndConfidenceInRange ==
    /\ Pipeline =>
          \A k \in 0..(Len(signals.Signal) - 1) :
              /\ At(signals.Position, k) >= 0 - Half /\ At(signals.Position, k) <= Half
              /\ At(signals.Confidence, k) >= 0 /\ At(signals.Confidence, k) <= Q
    /\ (entry = "decide" /\ pc = "done") =>
          /\ result.decision.position >= 0 - Half /\ result.decision.position <= Half
          /\ result.decision.confidence >= 0 /\ result.decision.confidence <= Q

\* a final score above 4, where only the cap keeps the confidence at 1
C2_Witness ==
    /\ entry = "decide"
    /\ pc = "done"
    /\ trace[1].final_score > 4 * Q
    /\ result.decision.confidence = Q
    /\ result.decision.position = Half

\* the decision the five bands give for a final score f (in 1/Q)
BandDecision(f) ==
    IF 2 * f >= 5 * Q
    THEN [signal |-> 1, position |-> Half,
          confidence |-> IF f \div 4 <= Q THEN f \div 4 ELSE Q]
    ELSE IF 2 * f <= 0 - 5 * Q
    THEN [signal |-> 0 - 1, position |-> 0 - Half,
          confidence |-> IF (0 - f) \div 4 <= Q THEN (0 - f) \div 4 ELSE Q]
    ELSE IF 2 * f >= 3 * Q
    THEN [signal |-> 1, position |-> Half \div 2, confidence |-> f \div 4]
    ELSE IF 2 * f <= 0 - 3 * Q
    THEN [signal |-> 0 - 1, position |-> 0 - Half \div 2, confidence |-> (0 - f) \div 4]
    ELSE [signal |-> 0, position |-> 0, confidence |-> 0]

\* C3: the decision of every scored bar, and of every call of
\* _make_fx_decision, is the one its final score f selects: f >= 2.5 strong
\* buy, f <= -2.5 strong sell, 1.5 <= f < 2.5 weak buy, -2.5 < f <= -1.5
\* weak sell, hold otherwise, with the confidences min(|f|/4, 1), |f|/4, 0
C3_DecisionFollowsBands ==
    /\ (Pipeline /\ TableReady) =>
          \A j \in 1..Len(trace) :
              DecisionAt(signals, trace[j].bar) = BandDecision(trace[j].final_score)
    /\ (entry = "decide" /\ pc = "done") =>
          /\ result.decision.signal = BandDecision(trace[1].final_score).signal
          /\ result.decision.position = BandDecision(trace[1].final_score).position
          /\ result.decision.confidence = BandDecision(trace[1].final_score).confidence

\* a scored bar of a series whose final score lies in (-2.5, -1.5]
C3_Witness ==
    /\ entry = "direct"
    /\ pc = "done"
    /\ \E j \in 1..Len(trace) :
          /\ 2 * trace[j].final_score > 0 - 5 * Q
          /\ 2 * trace[j].final_score <= 0 - 3 * Q
          /\ At(signals.Signal, trace[j].bar) = 0 - 1
          /\ 2 * At(signals.Position, trace[j].bar) = 0 - Half

\* the multiplier the specification gives each session, in tenths
SessionWeight(s) ==
    CASE s = "Overlap" -> 13
      [] s = "London"  -> 12
      [] s = "NY"      -> 11
      [] s = "Tokyo"   -> 10
      [] s = "Quiet"   -> 7
      [] OTHER         -> 0

\* C4: the final score of a scored bar is (momentum + breakout) * m +
\* mean_reversion * m + risk with m the multiplier of the bar's session
\* (Overlap 1.3, London 1.2, NY 1.1, Tokyo 1.0, Quiet 0.7), the risk score
\* unweighted; that session is the one recorded for the bar and the one the
\* risk analysis used
C4_FinalScoreFormula ==
    /\ (Pipeline /\ TableReady) =>
          \A j \in 1..Len(trace) :
              LET t == trace[j]
                  m == SessionWeight(At(signals.Session, t.bar))
              IN  /\ 10 * t.final_score
                        = (t.momentum + t.breakout) * m + t.mean_reversion * m + 10 * t.risk
                  /\ t.session_multiplier = m
                  /\ t.risk_session = At(signals.Session, t.bar)
    /\ (entry = "decide" /\ pc = "done") =>
          LET t == trace[1]
          IN  10 * t.final_score
                  = (t.momentum + t.breakout) * t.session_multiplier
                      + t.mean_reversion * t.session_multiplier + 10 * t.risk

\* a scored Overlap bar with a trend score, a counter score and a risk score
C4_Witness ==
    /\ entry = "direct"
    /\ pc = "done"
    /\ \E j \in 1..Len(trace) :
          /\ At(signals.Session, trace[j].bar) = "Overlap"
          /\ trace[j].momentum + trace[j].breakout # 0
          /\ trace[j].mean_reversion # 0
          /\ trace[j].risk # 0

\* the label the priority order gives hour h
HourLabel(h) ==
    IF h >= 0 /\ h < 9 THEN "Tokyo"
    ELSE IF h >= 13 /\ h < 17 THEN "Overlap"
    ELSE IF h >= 8 /\ h < 17 THEN "London"
    ELSE IF h >= 13 /\ h < 22 THEN "NY"
    ELSE "Quiet"

\* C5: the session of a bar is the first match of Tokyo [0,9), Overlap
\* [13,17), London [8,17), NY [13,22), else Quiet; hour 8 is Tokyo, hours
\* 13..16 are Overlap, hour 3 Tokyo, 14 Overlap, 19 NY, 23 Quiet
C5_SessionByHour ==
    (Pipeline /\ TableReady) =>
        \A j \in 1..Len(trace) :
            LET h == At(data.Hour, trace[j].bar)
                s == At(signals.Session, trace[j].bar)
            IN  /\ s = HourLabel(h)
                /\ (h = 8 => s = "Tokyo")
                /\ (h \in 13..16 => s = "Overlap")
                /\ (h = 3 => s = "Tokyo")
                /\ (h = 14 => s = "Overlap")
                /\ (h = 19 => s = "NY")
                /\ (h = 23 => s = "Quiet")
                /\ (h \in 9..12 => s = "London")
                /\ (h \in 17..21 => s = "NY")

\* a series whose scored bars cover every hour 0..23
C5_Witness ==
    /\ entry = "direct"
    /\ pc = "done"
    /\ \A h \in 0..23 :
          \E j \in 1..Len(trace) :
              /\ At(data.Hour, trace[j].bar) = h
              /\ At(signals.Session, trace[j].bar) = HourLabel(h)

NothingComputed ==
    /\ Len(indicators.MACD) = 0
    /\ Len(signals.Signal) = 0
    /\ Len(trace) = 0
    /\ "none" \in DOMAIN performance

\* C6 as stated: a run gives the insufficient-data result exactly when the
\* series has fewer than 50 bars, and a report with 50 bars or more
C6_InsufficientBelow50 ==
    (entry = "run" /\ pc = "done") =>
        (result.kind = "None" <=> BarCount(data) < 50)

\* C6 as the code has it: a run gives the insufficient-data result, with no
\* indicator computed and no bar scored, exactly when the fetch gave nothing
\* or fewer than 100 bars; with 100 bars or more it goes through every stage
\* and returns a decision row per bar and a performance report
C6_InsufficientBelow100 ==
    entry = "run" =>
        /\ pc = "done" =>
              (result.kind = "None" <=> (IsNone(data) \/ BarCount(data) < 100))
        /\ (pc = "done" /\ result.kind = "None") => NothingComputed
        /\ (pc = "done" /\ result.kind # "None") =>
              /\ result.kind = "report"
              /\ Len(indicators.MACD) = BarCount(data)
              /\ Len(signals.Signal) = BarCount(data)
              /\ Len(trace) = BarCount(data) - 50
              /\ "Sharpe_Ratio" \in DOMAIN performance
        /\ pc \in {"indicators", "signals", "loop", "performance", "report"} =>
              BarCount(data) >= 100

\* a run on 50..99 bars, refused although the warm-up is covered
C6_Witness ==
    /\ entry = "run"
    /\ pc = "done"
    /\ BarCount(data) >= 50
    /\ BarCount(data) < 100
    /\ result.kind = "None"
    /\ NothingComputed

IndicatorColumns ==
    {"MACD", "MACD_Signal", "MACD_Histogram", "BB_Upper", "BB_Middle", "BB_Lower",
     "BB_Width", "BB_Position", "RSI", "ATR", "ATR_Pct", "EMA_5", "EMA_13", "EMA_34",
     "Price_Change_3", "Price_Change_5", "Volatility_10"}

BarColumns == {"Close", "High", "Low", "Hour"}

DecisionColumns == {"Signal", "Position", "Confidence", "FX_Strategy", "Session"}

\* the series of the two passes agree on the bars 0..cut
SamePrefix ==
    \A c \in BarColumns : \A k \in 0..shadow.cut : At(data[c], k) = At(shadow.data[c], k)

\* C7: two series that agree on the bars 0..cut give the same indicator
\* values, the same sub-scores and final score, and the same decision at
\* every bar up to cut, whatever follows bar cut in either series
C7_NoLookahead ==
    (HasShadow /\ SamePrefix) =>
        /\ pc \in {"signals", "loop", "performance", "done"} =>
              \A c \in IndicatorColumns : \A k \in 0..shadow.cut :
                  At(indicators[c], k) = At(shadow.indicators[c], k)
        /\ pc \in {"loop", "performance", "done"} =>
              \A j \in 1..Len(trace) :
                  trace[j].bar <= shadow.cut =>
                      /\ trace[j] = shadow.trace[j]
                      /\ \A c \in DecisionColumns :
                            At(signals[c], trace[j].bar) = At(shadow.signals[c], trace[j].bar)

\* both passes finished, the second series differs from the first right
\* after the cut, a bar of the shared prefix was scored to a trade, and a
\* bar after the cut was decided differently
C7_Witness ==
    /\ HasShadow
    /\ SamePrefix
    /\ pc = "done"
    /\ BarCount(shadow.data) > shadow.cut + 1
    /\ At(data.Close, shadow.cut + 1) # At(shadow.data.Close, shadow.cut + 1)
    /\ \E k \in 50..shadow.cut : At(signals.Position, k) # 0
    /\ \E k \in (shadow.cut + 1)..(Min2(BarCount(data), BarCount(shadow.data)) - 1) :
          At(signals.Position, k) # At(shadow.signals.Position, k)

\* C[t]/C[t-1] - 1 in 1/Micro
BarReturn(price, t) == ((At(price, t) - At(price, t - 1)) * Micro) \div At(price, t - 1)

\* C8: gross[t] = position[t-1] * (C[t]/C[t-1] - 1) for every t >= 1; the
\* position of bar t is no part of gross[t], bar 0 has no gross return and
\* there is no entry after the last bar for its position to earn
C8_PositionEarnsNextBar ==
    HasPerformanceColumns =>
        LET gross == signals.Gross_Strategy_Returns
        IN  /\ Len(gross) = Len(signals.Price)
            /\ Len(gross) >= 1 => At(gross, 0) = NaN
            /\ \A t \in 1..(Len(gross) - 1) :
                  At(gross, t) = (At(signals.Position, t - 1) * BarReturn(signals.Price, t))
                                    \div Half

\* a long position that earned the rise of the next bar although the
\* position at that bar is short, and a last bar with a position
C8_Witness ==
    /\ entry = "perf"
    /\ pc = "done"
    /\ Len(signals.Price) >= 2
    /\ At(signals.Position, Len(signals.Price) - 1) # 0
    /\ \E t \in 1..(Len(signals.Price) - 1) :
          /\ At(signals.Position, t - 1) = Half
          /\ At(signals.Position, t) = 0 - Half
          /\ At(signals.Price, t) > At(signals.Price, t - 1)
          /\ At(signals.Gross_Strategy_Returns, t) > 0

\* C9: cost[t] = |position[t] - position[t-1]| * 0.002 and net[t] =
\* gross[t] - cost[t] for every t >= 1; a flip from -1.0 to +1.0 costs
\* 2 * 0.002 and an unchanged position costs 0
C9_CostIsSpreadTimesChange ==
    HasPerformanceColumns =>
        \A t \in 1..(Len(signals.Price) - 1) :
            LET change == Abs(At(signals.Position, t) - At(signals.Position, t - 1))
                cost == At(signals.Trade_Cost, t)
            IN  /\ cost * Half * 1000 = change * 2 * Micro
                /\ At(signals.Net_Strategy_Returns, t)
                      = At(signals.Gross_Strategy_Returns, t) - cost
                /\ (At(signals.Position, t - 1) = 0 - Half /\ At(signals.Position, t) = Half)
                      => cost * 1000 = 2 * 2 * Micro
                /\ change = 0 => cost = 0

\* a produced decision series that flips from -1.0 to +1.0 in one bar
C9_Witness ==
    /\ Pipeline
    /\ pc = "done"
    /\ HasPerformanceColumns
    /\ \E t \in 1..(Len(signals.Price) - 1) :
          /\ At(signals.Position, t - 1) = 0 - Half
          /\ At(signals.Position, t) = Half
          /\ At(signals.Trade_Cost, t) * 1000 = 4 * Micro

\* C10: an all-hold decision series gives Total_Trades = 0, Total_Return =
\* 0, Max_Drawdown = 0 and Sharpe_Ratio = 0, whatever the prices
C10_AllHoldReportIsZero ==
    (entry = "perf" /\ pc = "done"
        /\ \A k \in 1..Len(signals.Position) : signals.Position[k] = 0) =>
        /\ performance.Total_Trades = 0
        /\ performance.Total_Return = 0
        /\ performance.Max_Drawdown = 0
        /\ performance.Sharpe_Ratio = 0


\* no row of the finished table has a net return that is a number other than 0
NoNetReturn ==
    \A k \in 1..Len(signals.Net_Strategy_Returns) :
        signals.Net_Strategy_Returns[k] \in {NaN, 0}

\* C11: a table without any non-zero net return gets the empty-metrics
\* report: zero trades, Win_Rate = 0 and Profit_Factor = 0
C11_NoNetReturnGivesEmptyReport ==
    (pc = "done" /\ HasPerformanceColumns /\ NoNetReturn) =>
        /\ performance.Total_Trades = 0
        /\ performance.Win_Rate = 0
        /\ performance.Profit_Factor = 0

\* the bars never move: open = high = low = close, the same at every bar
FlatBars ==
    /\ BarCount(data) > 0
    /\ \A k \in 1..BarCount(data) :
          /\ data.Close[k] = data.Close[1]
          /\ data.High[k] = data.Close[k]
          /\ data.Low[k] = data.Close[k]

\* C12: on a flat series every bar from the warm-up on is decided hold
\* (signal 0, position 0), whatever the length and the hours of the bars
C12_FlatSeriesAllHold ==
    (Pipeline /\ TableReady /\ FlatBars) =>
        \A k \in WarmUp..(Len(signals.Signal) - 1) :
            At(signals.Signal, k) = 0 /\ At(signals.Position, k) = 0

\* a finished flat series whose scored bars fall into all five sessions and
\* reach the bars where the volatility reference average exists
C12_Witness ==
    /\ Pipeline
    /\ pc = "done"
    /\ FlatBars
    /\ BarCount(data) = LongDirectBars
    /\ Len(trace) = LongDirectBars - WarmUp
    /\ \A s \in {"Tokyo", "Overlap", "London", "NY", "Quiet"} :
          \E j \in 1..Len(trace) : trace[j].risk_session = s
    /\ \E j \in 1..Len(trace) : trace[j].risk = Q + Q \div 2
    /\ \A j \in 1..Len(trace) : trace[j].momentum = 0 - Q

\* every close is above the close before it
StrictlyIncreasing ==
    /\ BarCount(data) > WarmUp
    /\ \A k \in 2..BarCount(data) : data.Close[k] > data.Close[k - 1]

\* C13: on a strictly increasing series the momentum sub-score of every
\* scored bar is positive, and by the end of the series some scored bar has
\* been decided signal = +1
C13_RiseGivesMomentumAndBuy ==
    (Pipeline /\ pc = "done" /\ HasPerformanceColumns /\ StrictlyIncreasing) =>
        /\ \A j \in 1..Len(trace) : trace[j].momentum > 0
        /\ \E k \in WarmUp..(Len(signals.Signal) - 1) : At(signals.Signal, k) = 1

\* the indicator columns have been computed for the current bars
HasIndicators ==
    /\ "BB_Width" \in DOMAIN indicators
    /\ pc \in {"signals", "loop", "performance", "report", "done"}

\* C14: at a bar whose Bollinger width is 0 the Bollinger position is the
\* neutral value 0.5
C14_ZeroWidthGivesNeutralPosition ==
    HasIndicators =>
        \A k \in 1..Len(indicators.BB_Width) :
            indicators.BB_Width[k] = 0 => indicators.BB_Position[k] = Scale \div 2

\* the 10-bar average loss at bar k of the current bars
AvgLoss(k) == RollMean(Fixed(LossOf(Diff(data.Close))), k, rsi_period)

\* C15: at a bar whose 10-bar average loss is 0 the RSI is exactly 100,
\* also when the average gain is 0 as well
C15_ZeroLossGivesRsi100 ==
    HasIndicators =>
        \A k \in 0..(BarCount(data) - 1) :
            AvgLoss(k) = 0 => At(indicators.RSI, k) = 100 * Scale

\* the rows of the finished table with a negative, and with a positive, net
\* return, and the sum of the net returns over a set of rows
LosingRows ==
    {k \in 1..Len(signals.Net_Strategy_Returns) :
        signals.Net_Strategy_Returns[k] # NaN /\ signals.Net_Strategy_Returns[k] < 0}
WinningRows ==
    {k \in 1..Len(signals.Net_Strategy_Returns) :
        signals.Net_Strategy_Returns[k] # NaN /\ signals.Net_Strategy_Returns[k] > 0}
NetOver(rows) ==
    SumRange(Col([k \in 1..Len(signals.Net_Strategy_Returns) |->
                     IF k \in rows THEN signals.Net_Strategy_Returns[k] ELSE 0]),
             0, Len(signals.Net_Strategy_Returns) - 1)

\* what the report gives as Profit_Factor for the finished table, by the
\* rule of the claim: unbounded without a losing row, else |wins / losses|
ProfitFactorByRule ==
    /\ LosingRows = {} => performance.Profit_Factor = Inf
    /\ LosingRows # {} =>
          performance.Profit_Factor
              = Abs((NetOver(WinningRows) * Scale) \div NetOver(LosingRows))

\* C16 as stated: every table without a losing row is reported with the
\* unbounded Profit_Factor, every table with one with |wins / losses|
C16_ProfitFactorAnyTable ==
    (pc = "done" /\ HasPerformanceColumns) => ProfitFactorByRule

\* C16: a table with at least one row is reported with the unbounded
\* Profit_Factor when no row has a negative net return and with
\* |sum of winning / sum of losing net returns| otherwise; a table without
\* rows is reported with Profit_Factor = 0
C16_ProfitFactorNonEmptyTable ==
    (pc = "done" /\ HasPerformanceColumns) =>
        IF Len(signals.Price) > 0 THEN ProfitFactorByRule
        ELSE performance.Profit_Factor = 0

\* a finished table with a winning row and no losing row
C16_Witness ==
    /\ pc = "done"
    /\ HasPerformanceColumns
    /\ WinningRows # {}
    /\ LosingRows = {}
    /\ performance.Profit_Factor = Inf
    /\ performance.Profitable_Trades = Cardinality(WinningRows)

\* C17: the reported Sharpe_Ratio is a number, never NaN, and it is 0 when
\* the standard deviation of the net returns is 0
C17_SharpeIsDefined ==
    (pc = "done" /\ HasPerformanceColumns) =>
        /\ performance.Sharpe_Ratio # NaN
        /\ StdOf(signals.Net_Strategy_Returns) = 0 => performance.Sharpe_Ratio = 0

\* every call that has returned got what it gets when it runs alone
ReturnsAsAlone ==
    \A r \in Callers :
        runs.call[r].pc = "done" => runs.call[r].ret = runs.call[r].alone

\* a call that has not started finds nothing left behind by the other
StartsFresh ==
    \A r \in Callers :
        runs.call[r].pc = "idle" => runs.frame[FrameOf(r)] = NoFrame

\* a step writes the locals and the position of the call that takes it only
WritesOwnFrameOnly ==
    /\ \A f \in Callers : f # FrameOf(runs'.last) => runs'.frame[f] = runs.frame[f]
    /\ \A r \in Callers : r # runs'.last => runs'.call[r] = runs.call[r]

\* C18: two calls on bars of their own, interleaved in any order on one
\* instance or on two, each return the tables and the report they return
\* when run alone; no step of one call writes what the other reads, and a
\* later call finds nothing of an earlier one
C18_ConcurrentRunsIsolated ==
    [](ReturnsAsAlone /\ StartsFresh) /\ [][WritesOwnFrameOnly]_vars

\* on one instance, call 1 returns its own result while call 2, on other
\* bars, is in the middle of its loop
C18_Witness ==
    /\ runs.last = 1
    /\ runs.call[2].self = 1
    /\ runs.call[1].pc = "done"
    /\ runs.call[1].ret = runs.call[1].alone
    /\ runs.call[2].pc = "loop"
    /\ runs.frame[FrameOf(2)].i = WarmUp + 1
    /\ runs.frame[FrameOf(2)].data.Close # runs.call[1].ret.data.Close
    /\ \E k \in WarmUp..(PairBars - 1) : At(runs.call[1].ret.signals.Signal, k) # 0

\* the RSI part of the mean-reversion score of a bar with this RSI
RsiBonus(rsi) ==
    IF rsi = NaN THEN 0
    ELSE IF rsi < 25 * Scale THEN 2 * Q
    ELSE IF rsi > 75 * Scale THEN 0 - 2 * Q
    ELSE IF rsi >= 40 * Scale /\ rsi <= 60 * Scale THEN Q \div 2
    ELSE 0

\* the Bollinger position of the j-th scored bar and what it added to the
\* mean-reversion score of that bar
ScoredPosition(j) == At(indicators.BB_Position, trace[j].bar)
BollingerBonus(j) ==
    trace[j].mean_reversion - RsiBonus(At(indicators.RSI, trace[j].bar))

\* C19 as stated: the Bollinger bonuses add up, a position below 0.05
\* earns +2 and +1, a position above 0.95 earns -2 and -1
C19_BollingerBonusesAdd ==
    (Pipeline /\ TableReady) =>
        \A j \in 1..Len(trace) :
            /\ Lt(ScoredPosition(j), 50) => BollingerBonus(j) = 3 * Q
            /\ Gt(ScoredPosition(j), 950) => BollingerBonus(j) = 0 - 3 * Q

\* C19: the Bollinger bonuses exclude each other: +2 below 0.05, -2 above
\* 0.95, +1 from 0.05 to below 0.20, -1 above 0.80 up to 0.95, else nothing
C19_BollingerBonusesExclusive ==
    (Pipeline /\ TableReady) =>
        \A j \in 1..Len(trace) :
            BollingerBonus(j) =
                IF Lt(ScoredPosition(j), 50) THEN 2 * Q
                ELSE IF Gt(ScoredPosition(j), 950) THEN 0 - 2 * Q
                ELSE IF Lt(ScoredPosition(j), 200) THEN Q
                ELSE IF Gt(ScoredPosition(j), 800) THEN 0 - Q
                ELSE 0

\* a scored bar with a Bollinger position below 0.05 that earned +2
C19_Witness ==
    /\ Pipeline
    /\ TableReady
    /\ \E j \in 1..Len(trace) :
          /\ IsNum(ScoredPosition(j))
          /\ ScoredPosition(j) < 50
          /\ BollingerBonus(j) = 2 * Q

\* the rolling reference averages the scorer compares against at bar k
ReferenceAverages(k) ==
    <<RollMean(indicators.ATR_Pct, k, 20),
      RollMean(data.Daily_Range_Pct, k, 20),
      RollMean(indicators.Volatility_10, k, 50)>>

\* the indicator values the scorer reads at bar k
ValuesRead(k) ==
    <<At(indicators.MACD, k), At(indicators.MACD_Signal, k),
      At(indicators.MACD_Histogram, k), At(indicators.MACD_Histogram, k - 1),
      At(indicators.EMA_5, k), At(indicators.EMA_13, k), At(indicators.EMA_34, k),
      At(indicators.RSI, k), At(indicators.BB_Position, k),
      At(indicators.ATR_Pct, k), At(indicators.Price_Change_3, k),
      At(indicators.Price_Change_5, k), At(indicators.Volatility_10, k)>>

\* C20: at every scored bar every indicator value and every rolling
\* reference average that the sub-scores read is defined
C20_WarmUpCoversEveryWindow ==
    (Pipeline /\ TableReady) =>
        \A j \in 1..Len(trace) :
            /\ \A n \in 1..3 : ReferenceAverages(trace[j].bar)[n] # NaN
            /\ \A n \in 1..13 : ValuesRead(trace[j].bar)[n] # NaN

\* the EMA term of the momentum score of bar k, by the claim's table
EmaTerm(k) ==
    LET e5  == At(indicators.EMA_5, k)
        e13 == At(indicators.EMA_13, k)
        e34 == At(indicators.EMA_34, k)
    IN  IF e5 > e13 /\ e13 > e34 THEN Q
        ELSE IF e5 < e13 /\ e13 < e34 THEN 0 - Q
        ELSE 0

\* the MACD term of the j-th scored bar: its momentum score less the EMA term
MacdTerm(j) == trace[j].momentum - EmaTerm(trace[j].bar)

HistRose(k) == At(indicators.MACD_Histogram, k) > At(indicators.MACD_Histogram, k - 1)
HistFell(k) == At(indicators.MACD_Histogram, k) < At(indicators.MACD_Histogram, k - 1)

BearishTags ==
    {"macd_strong_bear", "macd_bear", "ema_bearish", "rsi_overbought",
     "bb_extreme_overbought", "bb_overbought", "downward_breakout", "range_break_down",
     "volatile_market", "quiet_session"}
BullishTags ==
    {"macd_strong_bull", "macd_bull", "ema_bullish", "rsi_oversold", "rsi_neutral",
     "bb_extreme_oversold", "bb_oversold", "upward_breakout", "range_break_up",
     "stable_market", "active_session"}

TagsOf(strategy) == {strategy.tags[n] : n \in 1..Len(strategy.tags)}

\* C22: the rationale of a buy decision carries no bearish tag and the
\* rationale of a sell decision no bullish tag
C22_RationaleFollowsDirection ==
    (Pipeline /\ TableReady) =>
        \A k \in 1..Len(signals.FX_Strategy) :
            LET st == signals.FX_Strategy[k]
            IN  /\ st.label \in {"FX_BUY", "FX_WEAK_BUY"} => TagsOf(st) \cap BearishTags = {}
                /\ st.label \in {"FX_SELL", "FX_WEAK_SELL"} => TagsOf(st) \cap BullishTags = {}

\* C23: Win_Rate is 100 times the winning rows over the winning and losing
\* rows together; one winning row and no losing row give Win_Rate = 100
C23_WinRateOverDecidedRows ==
    (pc = "done" /\ HasPerformanceColumns /\ WinningRows \cup LosingRows # {}) =>
        performance.Win_Rate
            = (Cardinality(WinningRows) * 100 * Scale)
                  \div (Cardinality(WinningRows) + Cardinality(LosingRows))

\* the bar scored last; every scored bar is the last one in the state that
\* follows its pass of the loop
LastScored == trace[Len(trace)]

\* the volatility term of the risk score of bar k by the claim's table: both
\* comparisons are false while the 50-bar average is undefined
VolatilityTerm(k) ==
    LET v   == At(indicators.Volatility_10, k)
        avg == ReferenceAverages(k)[3]
    IN  IF v = NaN \/ avg = NaN THEN 0
        ELSE IF 10 * v <= 11 * avg THEN Q
        ELSE IF 10 * v >= 15 * avg THEN 0 - Q
        ELSE 0

\* the session term of the risk score for a bar at hour h
SessionTerm(h) ==
    IF HourLabel(h) \in {"Overlap", "London"} THEN Q \div 2
    ELSE IF HourLabel(h) = "Quiet" THEN 0 - Q \div 2
    ELSE 0

\* C24: the risk score of a scored bar is its volatility term (+1, -1 or 0)
\* plus its session term (+0.5, -0.5 or 0), one of the seven values from
\* -1.5 to 1.5
C24_RiskIsVolatilityPlusSession ==
    (Pipeline /\ TableReady /\ Len(trace) > 0) =>
        /\ LastScored.risk
              = VolatilityTerm(LastScored.bar) + SessionTerm(At(data.Hour, LastScored.bar))
        /\ LastScored.risk \in {m * (Q \div 2) : m \in (0 - 3)..3}

\* a scored bar in the Quiet session whose volatility is at least 1.5 times
\* its average: risk -1.5
C24_Witness ==
    /\ Pipeline
    /\ TableReady
    /\ Len(trace) > 0
    /\ VolatilityTerm(LastScored.bar) = 0 - Q
    /\ HourLabel(At(data.Hour, LastScored.bar)) = "Quiet"
    /\ LastScored.risk = 0 - (Q + Q \div 2)

\* the two terms of the breakout score of bar k by the claim's table
AtrTerm(k) ==
    LET a   == At(indicators.ATR_Pct, k)
        avg == ReferenceAverages(k)[1]
        pc3 == At(indicators.Price_Change_3, k)
    IN  IF a = NaN \/ avg = NaN \/ ~(10 * a > 12 * avg) THEN 0
        ELSE IF pc3 # NaN /\ 1000 * pc3 > 5 * Micro THEN Q
        ELSE IF pc3 # NaN /\ 1000 * pc3 < 0 - 5 * Micro THEN 0 - Q
        ELSE 0

RangeTerm(k) ==
    LET r   == At(data.Daily_Range_Pct, k)
        avg == ReferenceAverages(k)[2]
        pc5 == At(indicators.Price_Change_5, k)
    IN  IF avg = NaN \/ ~(10 * r > 13 * avg) THEN 0
        ELSE IF pc5 # NaN /\ pc5 > 0 THEN Q \div 2
        ELSE 0 - Q \div 2

StagesRunning ==
    Pipeline /\ pc \in {"indicators", "signals", "loop", "performance", "report"}

\* the bar table is what _add_usdjpy_features made of its own bars: the
\* same columns, each derived field still the one computed from the bars
BarsIntact ==
    data = _add_usdjpy_features([Close |-> data.Close, High |-> data.High,
                                 Low |-> data.Low, Hour |-> data.Hour])

\* C26: from the indicator stage on no step changes the bar table: every
\* bar, every derived field, the number and the order of the bars stay
C26_StagesLeaveBarsAlone ==
    /\ []((StagesRunning \/ (Pipeline /\ pc = "done" /\ ~IsNone(data))) => BarsIntact)
    /\ [][StagesRunning => data' = data]_vars

\* a finished analysis of more than 50 bars with a trade in it, its bar
\* table as it was created
C26_Witness ==
    /\ Pipeline
    /\ pc = "done"
    /\ HasPerformanceColumns
    /\ BarCount(data) > WarmUp
    /\ BarsIntact
    /\ signals.Price = data.Close
    /\ \E k \in WarmUp..(BarCount(data) - 1) : At(signals.Position, k) # 0

\* sign(position)
SignOf(x) == IF x > 0 THEN 1 ELSE IF x < 0 THEN 0 - 1 ELSE 0

\* signal, position and confidence of one decision agree: 0.375 is 3 * Q / 8
\* and 0.625 is 5 * Q / 8
DecisionConsistent(d) ==
    /\ d.position \in {0 - Half, 0 - (Half \div 2), 0, Half \div 2, Half}
    /\ d.signal = SignOf(d.position)
    /\ (d.confidence = 0) <=> (d.signal = 0)
    /\ d.signal # 0 => d.confidence >= (3 * Q) \div 8
    /\ Abs(d.position) = Half => d.confidence >= (5 * Q) \div 8
    /\ Abs(d.position) = Half \div 2 => d.confidence < (5 * Q) \div 8

\* C27: every decision of a decision table, and every decision returned by
\* _make_fx_decision, has position in {-1, -0.5, 0, 0.5, 1}, signal =
\* sign(position), confidence 0 exactly at hold, confidence >= 0.375 when not
\* hold, >= 0.625 at a full and < 0.625 at a partial position
C27_DecisionsConsistent ==
    /\ (Pipeline /\ TableReady /\ ~IsNone(signals)) =>
          \A k \in 0..(Len(signals.Signal) - 1) :
              DecisionConsistent(DecisionAt(signals, k))
    /\ (entry = "decide" /\ pc = "done") => DecisionConsistent(result.decision)

\* a finished table that holds a full and a partial position
C27_Witness ==
    /\ Pipeline
    /\ pc = "done"
    /\ HasPerformanceColumns
    /\ \E k \in WarmUp..(Len(signals.Signal) - 1) :
          Abs(At(signals.Position, k)) = Half
    /\ \E k \in WarmUp..(Len(signals.Signal) - 1) :
          Abs(At(signals.Position, k)) = Half \div 2

\* the step leaves the decision columns of every bar as they were
DecisionsKept ==
    /\ signals'.Price = signals.Price
    /\ signals'.Signal = signals.Signal
    /\ signals'.Position = signals.Position
    /\ signals'.Confidence = signals.Confidence

\* C28: calculate_fx_performance leaves Price, Signal, Position and
\* Confidence of every bar unchanged, and a second call on the table it
\* completed returns the same report and leaves the whole table as it was
C28_PerformanceIdempotent ==
    [][/\ pc = "performance" => DecisionsKept
       /\ pc' = "again" => (DecisionsKept /\ performance' = performance
                               /\ signals' = signals)]_vars

\* a second call made on the table of a finished pipeline that traded
C28_Witness ==
    /\ pc = "again"
    /\ Pipeline
    /\ performance # _empty_fx_metrics
    /\ performance.Total_Trades > 0
    /\ performance.Trading_Costs > 0

\* the call under way, or the last one, was made without a manual rate
NoManual == provider.pc # "idle" /\ ~provider.manual_rate.given
Returned == provider.pc = "returned"

\* the number of attempts the call made on the API of index k
AttemptsOn(k) ==
    Cardinality({j \in 1..Len(provider.log) : provider.log[j].api = k})

\* the APIs are tried in list order, at most 4, 3, 3 and 2 times, at most
\* 12 times in all
TriedInOrder ==
    /\ \A j \in 1..(Len(provider.log) - 1) : provider.log[j].api <= provider.log[j + 1].api
    /\ \A j \in 1..Len(provider.log) : provider.log[j].api \in 1..4
    /\ AttemptsOn(1) <= 4 /\ AttemptsOn(2) <= 3 /\ AttemptsOn(3) <= 3 /\ AttemptsOn(4) <= 2
    /\ Len(provider.log) <= 12

\* an attempt that yields a rate is the last one made, and the call has
\* returned that Live API result
FirstYieldReturns ==
    \A j \in 1..Len(provider.log) :
        provider.log[j].yielded =>
            /\ j = Len(provider.log)
            /\ Returned
            /\ provider.result.source = "Live API"
            /\ provider.result.manual_input_required = FALSE

NothingYielded == \A j \in 1..Len(provider.log) : ~provider.log[j].yielded

BookkeepingKept ==
    /\ provider.api_success_count = provider.at_call.api_success_count
    /\ provider.last_successful_api = provider.at_call.last_successful_api

\* the API of the last attempt has one success more than at the call and is
\* the last successful one, every other count is as it was
SuccessCounted ==
    LET api_name == api_configs[provider.log[Len(provider.log)].api].name
    IN  /\ provider.last_successful_api = api_name
        /\ provider.api_success_count =
              [provider.at_call.api_success_count EXCEPT ![api_name] = @ + 1]

FallbackReturned ==
    /\ provider.result.source = "Manual Input Required"
    /\ provider.result.manual_input_required = TRUE
    /\ provider.api_success_count = provider.at_call.api_success_count

\* what get_real_fx_rate does on the loop of line 294
ChainRule ==
    /\ TriedInOrder
    /\ FirstYieldReturns
    /\ (Returned /\ ~NothingYielded) => SuccessCounted
    /\ (Returned /\ NothingYielded) => FallbackReturned

\* what it does on the urllib loop: the two URLs once each, a success
\* returned as a Live API result with the bookkeeping untouched
UrllibRule ==
    /\ \A j \in 1..Len(provider.log) : provider.log[j].api = j
    /\ Len(provider.log) <= 2
    /\ FirstYieldReturns
    /\ (Returned /\ ~NothingYielded) =>
          (provider.result.api_provider = "urllib" /\ BookkeepingKept)
    /\ (Returned /\ NothingYielded) => (FallbackReturned /\ BookkeepingKept)

Terminates == (NoManual /\ provider.pc = "chain") ~> Returned

\* C29 as stated: every call of get_real_fx_rate without a manual rate ends,
\* tries the APIs in list order at most 4, 3, 3 and 2 times, returns the
\* Live API result of the first attempt that yields a rate with that API's
\* success count one higher and last_successful_api set to it, and returns
\* the fallback with the counts unchanged when every attempt fails
C29_ChainAsStated == [](NoManual => ChainRule) /\ Terminates

\* C29, amended: that holds where the requests library was imported; where
\* it was not, the two urllib URLs are tried once each, a success is returned
\* as a Live API result without any change to the success counts or to
\* last_successful_api, and the fallback is returned when both fail
C29_ChainWithRequestsElseUrllib ==
    /\ []((NoManual /\ provider.REQUESTS_AVAILABLE) =>
             (ChainRule /\ (Returned /\ NothingYielded => Len(provider.log) = 12)))
    /\ []((NoManual /\ ~provider.REQUESTS_AVAILABLE) => UrllibRule)
    /\ Terminates

\* a second call without a manual rate that got its rate from the second
\* API after the first used up its four attempts
C29_Witness ==
    /\ NoManual
    /\ provider.REQUESTS_AVAILABLE
    /\ Returned
    /\ provider.calls = 2
    /\ Len(provider.log) = 5
    /\ provider.log[5].yielded
    /\ provider.result.source = "Live API"
    /\ provider.api_success_count["exchangerate-host"] = 2

\* the manual rate is one the pair accepts: the pair is supported, the rate
\* lies in the pair's [min, max] and has no more decimals than allowed
ManualRateAcceptable ==
    /\ provider.pair \in SupportedPairs
    /\ provider.manual_rate.value # NaN
    /\ rate_ranges[provider.pair].min <= provider.manual_rate.value
    /\ provider.manual_rate.value <= rate_ranges[provider.pair].max
    /\ DecimalPlaces(provider.manual_rate.value) <= rate_ranges[provider.pair].decimal

\* C30: a call with an acceptable manual rate returns that rate with source
\* "Manual Input", tries no API and leaves last_successful_api and the
\* success counts alone; a call with any other manual rate goes through the
\* APIs, and the rejected value is not the rate it returns
C30_ManualRateUsedOnlyIfAcceptable ==
    (provider.pc = "returned" /\ provider.manual_rate.given) =>
        IF ManualRateAcceptable
        THEN /\ provider.result.rate = provider.manual_rate.value
             /\ provider.result.source = "Manual Input"
             /\ provider.log = << >>
             /\ BookkeepingKept
        ELSE /\ provider.result.source # "Manual Input"
             /\ provider.result.rate # provider.manual_rate.value
             /\ Len(provider.log) > 0

=============================================================================
